---------------------------- MODULE Spec2Model ----------------------------
(***************************************************************************)
(* Verification model of the Tahoe/CMap signature pipeline                 *)
(* (tahoe_cmap_analysis/scripts): parallel extraction of the H5 store,     *)
(* gene-identifier harmonization, rank transform, serialization and the    *)
(* replicate-consistency validator.                                        *)
(*                                                                         *)
(* Conventions.  numpy/pandas positions are 0-based; positions in a TLA+   *)
(* sequence are 1-based, so a stored position p of the code is p + 1 here. *)
(* Row and column INDICES of the store (labels) keep the code's 0-based    *)
(* values.  A floating-point value is a pair <<num, den>> standing for     *)
(* num / den with den > 0; the pair <<0, 0>> is NaN.  Arithmetic is exact  *)
(* (no rounding).                                                          *)
(***************************************************************************)
EXTENDS Integers, Sequences, FiniteSets, TLC

VARIABLES
    \* ---- extraction (part1_h5_to_parquet, process_h5_chunk) ----
    ext_pc,         \* position of part1_h5_to_parquet
    row_idx_keep,   \* experiments["experiment_id"] as a list
    col_idx_keep,   \* target physical column indices, caller's order
    n_cores,        \* worker count
    row_chunks,     \* np.array_split(row_sorted, n_cores)
    col_sorted,     \* col_idx_keep[col_order]
    col_unsort,     \* np.argsort(col_order)
    results,        \* per chunk: the worker's returned batch, once returned
    parquet,        \* rows written to the output file so far
    disk_free,      \* free bytes on the output volume (psutil.disk_usage)
    dispatched,     \* per chunk: how many times it was handed to a worker
    ext_error,      \* the exception that ended the extraction, "" if none
    \* ---- harmonization, ranking, serialization (Part 2 scripts) ----
    sig_pc,             \* position in the Part 2 script
    variant,            \* "hpc": Part 2 of the HPC pipeline (own gene map);
                        \* "shared": the shared-gene ranking scripts
    l2fc_df,            \* the extracted table, experiments x gene symbols
    gene_map,           \* rows (name, id) of the symbol -> entrez id table
    shared_entrez_ids,  \* the reference shared-id set
    transposed,         \* genes x experiments table, indexed by gene
    rank_chunk_size,    \* args.rank_chunk_size / CHUNK_SIZE
    rank_start,         \* loop variable 'start' of the ranking loop
    ranked_chunks,      \* list of ranked column batches
    ranked_matrix,      \* pd.concat(ranked_chunks, axis=1)
    saved,              \* the serialized signature table
    \* ---- replicate-consistency validator (generate_valid_instances) ----
    val_pc,         \* position of main / of the caller of apply_filters
    sigs,           \* signature matrix: column id -> vector over the genes
    meta,           \* metadata rows (id, name), in file order
    sigs_filt,      \* the matrix restricted to common_ids
    meta_filt,      \* the metadata rows whose id is in common_ids
    groups_done,    \* number of drug groups calculate_raw_stats has processed
    results_df,     \* the result records (rows of results_df)
    filter_mode,    \* args.filter_mode / mode of the last apply_filters call
    threshold,      \* args.threshold / threshold of the last call
    r_cutoff,       \* percentile cutoff computed by the last call (NaN if none)
    csv,            \* the table written to the output CSV
    argv,           \* the command line: --filter-mode and --threshold, if given
    load_error,     \* the fatal error met while loading the inputs, "" if none
    \* ---- the driver (create_tahoe_og_signatures_hpc.main) ----
    drv_pc,         \* position of main
    skip_part1,     \* args.skip_part1
    skip_part2,     \* args.skip_part2
    force,          \* args.force
    parquet_file,   \* the Part 1 output file: "absent", "partial" or "complete"
    rdata_file,     \* the Part 2 output file: "absent", "partial" or "complete"
    part1_runs,     \* how many times the body of Part 1 was started
    part2_runs,     \* how many times the body of Part 2 was started
    run_no,         \* which invocation of the driver this is (1, 2, ...)
    parquet_gen,    \* the invocation that wrote the Part 1 file (0: none)
    rdata_from,     \* parquet_gen of the table the Part 2 file was computed
                    \* from (0: none)
    \* ---- the significance gate of part1_h5_to_parquet ----
    enable_filter,        \* args.enable_filter
    padj,                 \* the '/padj' node of the H5 file, if any
    padj_threshold,       \* args.padj_threshold
    tahoe_genes_all,      \* gene_idx column of the genes file, in file order
    tahoe_genes_filtered, \* the local of that name: the genes kept
    padj_read,            \* rows of '/padj' read by the chunked scan
    \* ---- the RData file of the HPC pipeline and its loader ----
    cmap_like,            \* the table written to tahoe_signatures.RData
    tahoe_sigs_columns    \* column labels of the matrix the validator loaded

extVars == <<ext_pc, row_idx_keep, col_idx_keep, n_cores, row_chunks,
             col_sorted, col_unsort, results, parquet, disk_free, dispatched,
             ext_error>>

sigVars == <<sig_pc, variant, l2fc_df, gene_map, shared_entrez_ids, transposed, rank_chunk_size, rank_start, ranked_chunks,
             ranked_matrix, saved>>

valVars == <<val_pc, sigs, meta, sigs_filt, meta_filt, groups_done, results_df, filter_mode, threshold,
             r_cutoff, csv, argv, load_error>>

drvVars == <<drv_pc, skip_part1, skip_part2, force, parquet_file, rdata_file,
             part1_runs, part2_runs, run_no, parquet_gen, rdata_from>>

gateVars == <<enable_filter, padj, padj_threshold, tahoe_genes_all,
              tahoe_genes_filtered, padj_read>>

rdVars == <<cmap_like, tahoe_sigs_columns>>

\* the state of a Part 2 script apart from its position
sigVars_but_pc == <<variant, l2fc_df, gene_map, shared_entrez_ids, transposed,
                    rank_chunk_size, rank_start, ranked_chunks, ranked_matrix,
                    saved>>

vars == <<extVars, sigVars, valVars, drvVars, gateVars, rdVars>>

\* the inputs of a Part 2 script, read once
inputSigVars == <<variant, l2fc_df, gene_map, shared_entrez_ids>>

nonExtVars == <<sigVars, valVars, drvVars, gateVars, rdVars>>
nonSigVars == <<extVars, valVars, drvVars, gateVars, rdVars>>
nonValVars == <<extVars, sigVars, drvVars, gateVars, rdVars>>
nonDrvVars == <<extVars, sigVars, valVars, gateVars, rdVars>>

-----------------------------------------------------------------------------
(* Bounds of the model *)

MaxRowList == 3
MaxCores == 3
MaxGenes == 4
MaxExp == 2
MaxMapRows == 3
MaxInst == 3
MaxRecs == 3

\* declared shape of the '/l2fc' node of the store: <<rows, columns>>
NodeShape == <<3, 3>>

-----------------------------------------------------------------------------
(* Generic helpers *)

Range(s) == {s[i] : i \in 1..Len(s)}

Min2(a, b) == IF a <= b THEN a ELSE b

\* all sequences over S of length 0..n
SeqsUpTo(S, n) == UNION {[1..k -> S] : k \in 0..n}

IsInjective(s) == \A i, j \in 1..Len(s) : s[i] = s[j] => i = j

\* the parts joined last to first
RECURSIVE ConcatReversed(_)
ConcatReversed(ss) ==
    IF ss = <<>> THEN <<>> ELSE ConcatReversed(Tail(ss)) \o Head(ss)

RECURSIVE Concat(_)
Concat(ss) == IF ss = <<>> THEN <<>> ELSE Head(ss) \o Concat(Tail(ss))

\* number of positions of s holding x
Count(s, x) == Cardinality({i \in 1..Len(s) : s[i] = x})

-----------------------------------------------------------------------------
(* Floating-point values: <<num, den>>, den > 0, or NaN = <<0, 0>> *)

NaN == <<0, 0>>
F(n) == <<n, 1>>
IsNaN(x) == x[2] = 0

\* IEEE comparisons: every comparison with NaN is false
FLt(x, y) == ~IsNaN(x) /\ ~IsNaN(y) /\ x[1] * y[2] < y[1] * x[2]
FLe(x, y) == ~IsNaN(x) /\ ~IsNaN(y) /\ x[1] * y[2] <= y[1] * x[2]
FEq(x, y) == ~IsNaN(x) /\ ~IsNaN(y) /\ x[1] * y[2] = y[1] * x[2]
FGt(x, y) == FLt(y, x)
FGe(x, y) == FLe(y, x)

Abs(n) == IF n < 0 THEN -n ELSE n

RECURSIVE Gcd(_, _)
Gcd(a, b) == IF b = 0 THEN a ELSE Gcd(b, a % b)

\* the same value in lowest terms
Norm(x) ==
    IF IsNaN(x) THEN NaN
    ELSE LET g == Gcd(Abs(x[1]), x[2]) IN <<x[1] \div g, x[2] \div g>>

FAdd(x, y) ==
    IF IsNaN(x) \/ IsNaN(y) THEN NaN ELSE Norm(<<x[1] * y[2] + y[1] * x[2], x[2] * y[2]>>)
FSub(x, y) ==
    IF IsNaN(x) \/ IsNaN(y) THEN NaN ELSE Norm(<<x[1] * y[2] - y[1] * x[2], x[2] * y[2]>>)
FMul(x, y) ==
    IF IsNaN(x) \/ IsNaN(y) THEN NaN ELSE Norm(<<x[1] * y[1], x[2] * y[2]>>)

-----------------------------------------------------------------------------
(* The source store *)

\* node[row_idx, c]: the value stored at row row_idx, physical column c.
\* Every cell holds a different value, so a misplaced cell is visible.
Node(row_idx, c) == 10 * row_idx + c

RowIndices == 0..(NodeShape[1] - 1)
ColIndices == 0..(NodeShape[2] - 1)

-----------------------------------------------------------------------------
(* numpy primitives used by the extraction *)

\* np.sort of an integer array
NpSort(s) == SortSeq(s, LAMBDA a, b : a < b)

\* np.argsort: the positions of s in ascending order of value
NpArgsort(s) ==
    SortSeq([i \in 1..Len(s) |-> i],
            LAMBDA a, b : s[a] < s[b] \/ (s[a] = s[b] /\ a < b))

\* fancy indexing a[idx]
Take(a, idx) == [j \in 1..Len(idx) |-> a[idx[j]]]

\* a split into n chunks of equal length that leaves the remainder out
ArraySplitEqualOnly(s, n) ==
    LET q == Len(s) \div n
    IN  [k \in 1..n |-> SubSeq(s, (k - 1) * q + 1, k * q)]

\* a split into n contiguous chunks that gives the whole remainder to the
\* last chunk
ArraySplitLastLonger(s, n) ==
    LET q == Len(s) \div n
    IN  [k \in 1..n |->
            SubSeq(s, (k - 1) * q + 1, IF k = n THEN Len(s) ELSE k * q)]

\* np.array_split(s, n): n contiguous chunks, the first Len(s) % n of them
\* one element longer
ArraySplit(s, n) ==
    LET q == Len(s) \div n
        r == Len(s) % n
        size(k) == q + (IF k <= r THEN 1 ELSE 0)
        start(k) == (k - 1) * q + Min2(k - 1, r)
    IN  [k \in 1..n |-> SubSeq(s, start(k) + 1, start(k) + size(k))]

-----------------------------------------------------------------------------
(* process_h5_chunk *)

\* block_full[i, :] = node[row_idx, :]
BlockFullRow(row_idx) == [p \in 1..NodeShape[2] |-> Node(row_idx, p - 1)]

\* np.take(block_full, col_sorted, axis=1) for one row
BlockColsSortedRow(row_idx, csorted) ==
    [j \in 1..Len(csorted) |-> BlockFullRow(row_idx)[csorted[j] + 1]]

\* a worker that returns the columns as read, in ascending physical order
BlockColsRowAsRead(row_idx, csorted, cunsort) ==
    BlockColsSortedRow(row_idx, csorted)

\* block_cols_sorted[:, col_unsort] for one row
BlockColsRow(row_idx, csorted, cunsort) ==
    Take(BlockColsSortedRow(row_idx, csorted), cunsort)

\* the batch returned for a chunk of row indices
ProcessH5Chunk(chunk, csorted, cunsort) ==
    [i \in 1..Len(chunk) |->
        [experiment_id |-> chunk[i],
         vals |-> BlockColsRow(chunk[i], csorted, cunsort)]]

-----------------------------------------------------------------------------
(* part1_h5_to_parquet, from "Prepare for parallel processing" on *)

NoBatch == [done |-> FALSE, raised |-> FALSE, rows |-> <<>>]

\* a free space that is enough for every output of the model
AmpleDisk == 1000

\* required_disk_gb, in bytes: n_genes * n_experiments * 4 * 1.5
RequiredDisk(n_genes, n_experiments) == (n_genes * n_experiments * 4 * 3) \div 2

\* a disk check that lets every run pass
CheckDiskSpaceAlwaysTrue(free, required) == TRUE

\* check_disk_space: False iff available < required
CheckDiskSpace(free, required) == ~(free < required)

\* can the worker of chunk k read its rows and take its columns?  A row
\* index outside the store raises IndexError in node[row_idx, :], a column
\* index outside it in np.take (which has nothing to take for an empty chunk)
ChunkReadable(k) ==
    /\ \A i \in 1..Len(row_chunks[k]) : row_chunks[k][i] \in RowIndices
    /\ row_chunks[k] = <<>> \/ \A j \in 1..Len(col_sorted) : col_sorted[j] \in ColIndices

InitExt ==
    /\ ext_pc = "prepare"
    /\ disk_free = AmpleDisk
    /\ dispatched = <<>>
    /\ ext_error = ""
    /\ row_idx_keep \in SeqsUpTo(RowIndices, MaxRowList)
    /\ col_idx_keep \in {s \in SeqsUpTo(ColIndices, NodeShape[2]) :
                            Len(s) >= 1 /\ IsInjective(s)}
    /\ n_cores \in 1..MaxCores
    /\ row_chunks = <<>>
    /\ col_sorted = <<>>
    /\ col_unsort = <<>>
    /\ results = <<>>
    /\ parquet = <<>>

\* row_sorted, col_order, col_sorted, col_unsort, np.array_split
Prepare ==
    /\ ext_pc = "prepare"
    /\ LET row_sorted == NpSort(row_idx_keep)
           col_order == NpArgsort(col_idx_keep)
       IN  /\ col_sorted' = Take(col_idx_keep, col_order)
           /\ col_unsort' = NpArgsort(col_order)
           /\ row_chunks' = ArraySplit(row_sorted, n_cores)
    /\ results' = [k \in 1..n_cores |-> NoBatch]
    /\ dispatched' = [k \in 1..n_cores |-> 1]
    /\ ext_pc' = "parallel"
    /\ UNCHANGED <<row_idx_keep, col_idx_keep, n_cores, parquet, disk_free, ext_error>>
    /\ UNCHANGED nonExtVars

\* one worker of the joblib pool returns its batch; workers finish in any order
WorkerReturns(k) ==
    /\ ext_pc = "parallel"
    /\ ~results[k].done
    /\ ChunkReadable(k)
    /\ results' = [results EXCEPT ![k] =
                      [done |-> TRUE, raised |-> FALSE,
                       rows |-> ProcessH5Chunk(row_chunks[k], col_sorted, col_unsort)]]
    /\ UNCHANGED <<ext_pc, row_idx_keep, col_idx_keep, n_cores, row_chunks,
                   col_sorted, col_unsort, parquet, disk_free, dispatched, ext_error>>
    /\ UNCHANGED nonExtVars

\* one worker raises in process_h5_chunk (an index outside the store, or any
\* error of the read); the exception is logged and re-raised to the pool
WorkerRaises(k) ==
    /\ ext_pc = "parallel"
    /\ ~results[k].done
    /\ results' = [results EXCEPT ![k] = [done |-> TRUE, raised |-> TRUE, rows |-> <<>>]]
    /\ UNCHANGED <<ext_pc, row_idx_keep, col_idx_keep, n_cores, row_chunks,
                   col_sorted, col_unsort, parquet, disk_free, dispatched, ext_error>>
    /\ UNCHANGED nonExtVars

\* Parallel(...) re-raises the exception of a worker in the caller; nothing
\* catches it before main, which logs it and exits with status 1
ParallelRaises ==
    /\ ext_pc = "parallel"
    /\ \E k \in 1..n_cores : results[k].raised
    /\ ext_pc' = "failed"
    /\ ext_error' = "worker"
    /\ UNCHANGED <<row_idx_keep, col_idx_keep, n_cores, row_chunks, col_sorted,
                   col_unsort, results, parquet, disk_free, dispatched>>
    /\ UNCHANGED nonExtVars

\* estimate resources: the disk check, RuntimeError when it fails
EstimateResources ==
    /\ ext_pc = "estimate"
    /\ IF CheckDiskSpace(disk_free, RequiredDisk(Len(col_idx_keep), Len(row_idx_keep)))
       THEN ext_pc' = "prepare" /\ ext_error' = ext_error
       ELSE ext_pc' = "failed" /\ ext_error' = "Insufficient disk space"
    /\ UNCHANGED <<row_idx_keep, col_idx_keep, n_cores, row_chunks, col_sorted,
                   col_unsort, results, parquet, disk_free, dispatched>>
    /\ UNCHANGED nonExtVars

\* a writer that writes the batches of the workers that returned, although
\* another worker raised
WriteResultsOfReturned ==
    /\ ext_pc = "parallel"
    /\ \A k \in 1..n_cores : results[k].done
    /\ parquet' = Concat([k \in 1..n_cores |-> results[k].rows])
    /\ ext_pc' = "done"
    /\ UNCHANGED <<row_idx_keep, col_idx_keep, n_cores, row_chunks,
                   col_sorted, col_unsort, results, disk_free, dispatched, ext_error>>
    /\ UNCHANGED nonExtVars

\* a writer that writes what is available as soon as one worker has returned
WriteResultsAsAvailable ==
    /\ ext_pc = "parallel"
    /\ \E k \in 1..n_cores : results[k].done /\ ~results[k].raised
    /\ parquet' = Concat([k \in 1..n_cores |-> results[k].rows])
    /\ ext_pc' = "done"
    /\ UNCHANGED <<row_idx_keep, col_idx_keep, n_cores, row_chunks,
                   col_sorted, col_unsort, results, disk_free, dispatched, ext_error>>
    /\ UNCHANGED nonExtVars

\* Parallel(...) returns the list of results, in submission order, once every
\* worker has returned; the writer then writes every batch in that order
WriteResults ==
    /\ ext_pc = "parallel"
    /\ \A k \in 1..n_cores : results[k].done /\ ~results[k].raised
    /\ parquet' = Concat([k \in 1..n_cores |-> results[k].rows])
    /\ ext_pc' = "done"
    /\ UNCHANGED <<row_idx_keep, col_idx_keep, n_cores, row_chunks,
                   col_sorted, col_unsort, results, disk_free, dispatched, ext_error>>
    /\ UNCHANGED nonExtVars

NextExt ==
    \/ Prepare
    \/ \E k \in 1..MaxCores : k <= n_cores /\ WorkerReturns(k)
    \/ WriteResults

\* the free space of the output volume in the runs of the whole function
DiskFreeChoices == {0, 12, AmpleDisk}

\* the gene index lists of the genes file, sorted as the code sorts them: all
\* genes of the store, some of them, or a list naming a gene past the store
GeneIdxLists == {<<0, 1, 2>>, <<0, 2>>, <<1, NodeShape[2]>>}

\* part1_h5_to_parquet once the genes and the experiments are loaded: the
\* experiment ids and gene indices are whatever the two files hold, inside
\* the store or one past its last row / column
InitPart1 ==
    /\ ext_pc = "estimate"
    /\ row_idx_keep \in SeqsUpTo(RowIndices \cup {NodeShape[1]}, MaxRowList)
    /\ col_idx_keep \in GeneIdxLists
    /\ n_cores \in 1..MaxCores
    /\ disk_free \in DiskFreeChoices
    /\ dispatched = <<>>
    /\ ext_error = ""
    /\ row_chunks = <<>>
    /\ col_sorted = <<>>
    /\ col_unsort = <<>>
    /\ results = <<>>
    /\ parquet = <<>>

NextPart1 ==
    \/ EstimateResources
    \/ Prepare
    \/ \E k \in 1..MaxCores : k <= n_cores /\ WorkerReturns(k)
    \/ \E k \in 1..MaxCores : k <= n_cores /\ WorkerRaises(k)
    \/ ParallelRaises
    \/ WriteResults

\* the extraction is not running
IdleExt ==
    /\ ext_pc = "idle"
    /\ disk_free = AmpleDisk
    /\ dispatched = <<>>
    /\ ext_error = ""
    /\ row_idx_keep = <<>>
    /\ col_idx_keep = <<>>
    /\ n_cores = 1
    /\ row_chunks = <<>>
    /\ col_sorted = <<>>
    /\ col_unsort = <<>>
    /\ results = <<>>
    /\ parquet = <<>>

-----------------------------------------------------------------------------
(* DataFrame.rank(axis=0, method="first", ascending=False, na_option="bottom") *)
(* for one column, as pandas computes it (rank_1d / rank_sorted_1d): NaN is  *)
(* filled with the lowest value, the rows are lexsorted ascending by         *)
(* (not-missing, value) with a stable sort, the order is reversed, and each  *)
(* run of equal keys is numbered downwards (TIEBREAK_FIRST_DESCENDING).      *)

\* same sort key: both missing, or both present and equal
SameKey(x, y) == (IsNaN(x) /\ IsNaN(y)) \/ FEq(x, y)

\* na_option="top": missing values sort last in the ascending lexsort, so
\* that they come first once the order is reversed
KeyLtNaTop(x, y) == (~IsNaN(x) /\ IsNaN(y)) \/ FLt(x, y)

\* strictly smaller key in the ascending lexsort: missing first, then by value
KeyLt(x, y) == (IsNaN(x) /\ ~IsNaN(y)) \/ FLt(x, y)

\* np.lexsort(order): row positions in ascending key order, stable
Lexsort(col) ==
    SortSeq([i \in 1..Len(col) |-> i],
            LAMBDA a, b : KeyLt(col[a], col[b])
                          \/ (SameKey(col[a], col[b]) /\ a < b))

\* lexsort_indexer[::-1]
Reversed(s) == [j \in 1..Len(s) |-> s[Len(s) + 1 - j]]

\* method="min": every row of a run of equal keys gets the run's first rank
TiebreakMin(a, i, j) == a

\* TIEBREAK_FIRST_DESCENDING: in the run of equal keys at sorted positions
\* a..i, position j gets rank i + a - j  (0-based: 2*i - j - dups + 2)
TiebreakFirstDescending(a, i, j) == i + a - j

\* rank_sorted_1d: the rank of every row, from the sort indexer
RankSorted1d(col, sort_indexer) ==
    LET n == Len(col)
        key(j) == col[sort_indexer[j]]
        runStart(j) == CHOOSE a \in 1..j :
                          /\ \A t \in a..j : SameKey(key(t), key(j))
                          /\ (a = 1 \/ ~SameKey(key(a - 1), key(j)))
        runEnd(j) == CHOOSE i \in j..n :
                          /\ \A t \in j..i : SameKey(key(t), key(j))
                          /\ (i = n \/ ~SameKey(key(i + 1), key(j)))
        posOf(g) == CHOOSE j \in 1..n : sort_indexer[j] = g
    IN  [g \in 1..n |->
            TiebreakFirstDescending(runStart(posOf(g)), runEnd(posOf(g)), posOf(g))]

\* the ranked column (astype("int32"): the ranks are whole numbers)
RankColumn(col) == RankSorted1d(col, Reversed(Lexsort(col)))

-----------------------------------------------------------------------------
(* The ranking loop and the serializer of the Part 2 scripts *)

\* default of --rank-chunk-size / CHUNK_SIZE
DefaultChunkSize == 512

\* effect sizes a ranked column is drawn from
RankValues == {NaN, F(-2), F(5), F(30)}

\* rotate a column by k rows
Rotate(col, k) == [g \in 1..Len(col) |-> col[((g - 1 + k) % Len(col)) + 1]]

\* a table: index (gene ids), columns (experiment labels), data[e][g]
Table(index, columns, data) == [index |-> index, columns |-> columns, data |-> data]
EmptyTable == Table(<<>>, <<>>, <<>>)

\* --rank-chunk-size: one column per batch, an uneven split, the default
RankChunkSizes == {1, 2, DefaultChunkSize}

\* The collapsed table the ranking loop starts from: a unique ascending
\* entrez index, experiments 0..E-1, every first column over RankValues, the
\* further columns rotations of the first.
InitRank ==
    /\ sig_pc = "rank"
    /\ variant = "hpc"
    /\ l2fc_df = EmptyTable
    /\ gene_map = <<>>
    /\ shared_entrez_ids = {}
    /\ \E G \in 1..MaxGenes, E \in 1..MaxExp :
          \E col \in [1..G -> RankValues] :
             transposed = Table([g \in 1..G |-> 10 * g],
                                [e \in 1..E |-> e - 1],
                                [e \in 1..E |-> Rotate(col, e - 1)])
    /\ rank_chunk_size \in RankChunkSizes
    /\ rank_start = 0
    /\ ranked_chunks = <<>>
    /\ ranked_matrix = EmptyTable
    /\ saved = EmptyTable

\* one iteration of "for start in range(0, len(cols), rank_chunk_size)"
RankChunk ==
    /\ sig_pc = "rank"
    /\ rank_start < Len(transposed.columns)
    /\ LET end == Min2(rank_start + rank_chunk_size, Len(transposed.columns))
           sub_df == SubSeq(transposed.data, rank_start + 1, end)
           sub_rank == [e \in 1..Len(sub_df) |-> RankColumn(sub_df[e])]
       IN  ranked_chunks' = Append(ranked_chunks, sub_rank)
    /\ rank_start' = rank_start + rank_chunk_size
    /\ UNCHANGED <<sig_pc, transposed, rank_chunk_size, ranked_matrix, saved>>
    /\ UNCHANGED <<inputSigVars, nonSigVars>>

\* pd.concat(ranked_chunks, axis=1) once the loop is over
ConcatRanked ==
    /\ sig_pc = "rank"
    /\ rank_start >= Len(transposed.columns)
    /\ ranked_matrix' = Table(transposed.index, transposed.columns,
                              Concat(ranked_chunks))
    /\ sig_pc' = "save"
    /\ UNCHANGED <<transposed, rank_chunk_size, rank_start, ranked_chunks, saved>>
    /\ UNCHANGED <<inputSigVars, nonSigVars>>

\* reset_index(drop=True): the gene ids are lost and the saved table is keyed
\* by row position
ResetIndexDropped(t) == Table([k \in 1..Len(t.index) |-> k - 1], t.columns, t.data)

\* ranked_matrix.reset_index().to_parquet(...): the index becomes the first
\* column, the experiment columns keep their order and labels
ResetIndex(t) == Table(t.index, t.columns, t.data)

SaveRanked ==
    /\ sig_pc = "save"
    /\ saved' = ResetIndex(ranked_matrix)
    /\ sig_pc' = "done"
    /\ UNCHANGED <<transposed, rank_chunk_size, rank_start, ranked_chunks,
                   ranked_matrix>>
    /\ UNCHANGED <<inputSigVars, nonSigVars>>

\* an option that is not on the command line
Absent == <<>>

\* a command line without --filter-mode and --threshold
NoArgv == [filter_mode |-> "absent", threshold |-> Absent]

IdleVal ==
    /\ val_pc = "idle"
    /\ sigs = <<>>
    /\ meta = <<>>
    /\ sigs_filt = <<>>
    /\ meta_filt = <<>>
    /\ groups_done = 0
    /\ results_df = <<>>
    /\ filter_mode = "pvalue"
    /\ threshold = <<5, 100>>
    /\ r_cutoff = NaN
    /\ csv = <<>>
    /\ argv = NoArgv
    /\ load_error = ""

IdleSig ==
    /\ sig_pc = "idle"
    /\ variant = "hpc"
    /\ l2fc_df = EmptyTable
    /\ gene_map = <<>>
    /\ shared_entrez_ids = {}
    /\ transposed = EmptyTable
    /\ rank_chunk_size = DefaultChunkSize
    /\ rank_start = 0
    /\ ranked_chunks = <<>>
    /\ ranked_matrix = EmptyTable
    /\ saved = EmptyTable

NextRank ==
    \/ RankChunk
    \/ ConcatRanked
    \/ SaveRanked

-----------------------------------------------------------------------------
(* Gene-identifier harmonization (Part 2 scripts, before the ranking loop) *)

\* a cell of the id column of the mapping table
IntId(n) == <<"int", n>>    \* a number
NaId == <<"na", 0>>         \* an empty cell (NaN)
TextId == <<"str", 0>>      \* text that is not a number

MapRow(name, id) == [name |-> name, id |-> id]

\* gene_map.dropna(subset=['Gene_name', 'entrezID'])
DropNaRows(gm) == SelectSeq(gm, LAMBDA r : r.id # NaId)

\* gene_map.drop_duplicates(subset=['Gene_name']): the first row of a name stays
RECURSIVE DropDuplicatesFrom(_, _)
DropDuplicatesFrom(gm, seen) ==
    IF gm = <<>> THEN <<>>
    ELSE IF Head(gm).name \in seen
         THEN DropDuplicatesFrom(Tail(gm), seen)
         ELSE <<Head(gm)>> \o DropDuplicatesFrom(Tail(gm), seen \cup {Head(gm).name})

DropDuplicates(gm) == DropDuplicatesFrom(gm, {})

\* dict(zip(names, ids)): a later row of a name replaces an earlier one
DictZip(gm) ==
    [n \in {gm[i].name : i \in 1..Len(gm)} |->
        gm[CHOOSE i \in 1..Len(gm) :
              /\ gm[i].name = n
              /\ \A j \in (i + 1)..Len(gm) : gm[j].name # n].id]

\* gene_name_to_entrez of the script
GeneNameToEntrez(v, gm) ==
    IF v = "hpc" THEN DictZip(DropDuplicates(DropNaRows(gm))) ELSE DictZip(gm)

\* shared_entrez_ids: set(pd.to_numeric(ids, errors="coerce").dropna().astype(int))
SharedEntrezIds(gm) ==
    {gm[i].id[2] : i \in {j \in 1..Len(gm) : gm[j].id[1] = "int"}}

\* l2fc_df.T
Transpose(t) ==
    Table(t.columns, t.index,
          [e \in 1..Len(t.index) |-> [g \in 1..Len(t.columns) |-> t.data[g][e]]])

\* transposed.index.map(gene_name_to_entrez): NaN for a symbol not in the dict
MapIndex(index, dict) ==
    [g \in 1..Len(index) |->
        IF index[g] \in DOMAIN dict THEN dict[index[g]] ELSE NaId]

\* pd.to_numeric(..., errors="coerce"): text becomes NaN
ToNumeric(id) == IF id[1] = "int" THEN id ELSE NaId

\* rows left after dropna / to_numeric / dropna, with their integer id
KeptRows(ids) == {g \in 1..Len(ids) : ToNumeric(ids[g]) # NaId}

\* ascending sequence of a finite set of integers
RECURSIVE SortedSeqOf(_)
SortedSeqOf(S) ==
    IF S = {} THEN <<>>
    ELSE LET m == CHOOSE x \in S : \A y \in S : x <= y
         IN  <<m>> \o SortedSeqOf(S \ {m})

\* sum of present values
RECURSIVE FSum(_)
FSum(vs) ==
    IF vs = <<>> THEN <<0, 1>>
    ELSE LET r == FSum(Tail(vs))
             h == Head(vs)
         IN  <<h[1] * r[2] + r[1] * h[2], h[2] * r[2]>>

\* a collapse that adds the rows of a group up instead of averaging them
GroupSum(vs) ==
    LET present == SelectSeq(vs, LAMBDA x : ~IsNaN(x))
    IN  IF present = <<>> THEN NaN ELSE FSum(present)

\* one cell of groupby(...).mean(): the mean of the present values of the
\* group, NaN when none is present
GroupMean(vs) ==
    LET present == SelectSeq(vs, LAMBDA x : ~IsNaN(x))
        sum == FSum(present)
    IN  IF present = <<>> THEN NaN ELSE <<sum[1], sum[2] * Len(present)>>

\* a table that keeps one row per mapped input row, without grouping
KeepEveryRow(t, ids) ==
    LET rows == SortedSeqOf(KeptRows(ids))
    IN  Table([k \in 1..Len(rows) |-> ids[rows[k]][2]], t.columns,
              [e \in 1..Len(t.columns) |->
                  [k \in 1..Len(rows) |-> t.data[e][rows[k]]]])

\* transposed.groupby("entrezID").mean(numeric_only=True): one row per id, in
\* ascending id order
CollapseByEntrez(t, ids) ==
    LET kept == KeptRows(ids)
        keys == SortedSeqOf({ids[g][2] : g \in kept})
        members(k) == SortedSeqOf({g \in kept : ids[g][2] = keys[k]})
    IN  Table(keys, t.columns,
              [e \in 1..Len(t.columns) |->
                  [k \in 1..Len(keys) |->
                      GroupMean([m \in 1..Len(members(k)) |->
                                    t.data[e][members(k)[m]]])]])

\* transposed.loc[transposed.index.intersection(shared_entrez_ids)]
HardFilter(t, shared) ==
    LET rows == SortedSeqOf({k \in 1..Len(t.index) : t.index[k] \in shared})
    IN  Table([k \in 1..Len(rows) |-> t.index[rows[k]]], t.columns,
              [e \in 1..Len(t.columns) |->
                  [k \in 1..Len(rows) |-> t.data[e][rows[k]]]])

\* gene symbols of the extracted table, and the mapping rows a table may hold
Symbols == <<"A", "B", "C">>
MapRowKinds ==
    {MapRow(n, i) : n \in Range(Symbols), i \in {IntId(10), IntId(20), NaId, TextId}}

\* extracted tables (3 experiments x 3 symbols; data[symbol][experiment])
L2fcTables ==
    {Table(<<0, 1, 2>>, Symbols, <<a, <<F(3), F(4), F(5)>>, c>>) :
        a \in {<<F(1), F(2), F(3)>>, <<NaN, F(2), F(4)>>},
        c \in {<<F(0), NaN, F(4)>>}}

InitSig ==
    /\ sig_pc = "load"
    /\ variant \in {"hpc", "shared"}
    /\ l2fc_df \in L2fcTables
    /\ gene_map \in SeqsUpTo(MapRowKinds, MaxMapRows)
    /\ shared_entrez_ids = {}
    /\ transposed = EmptyTable
    /\ rank_chunk_size = DefaultChunkSize
    /\ rank_start = 0
    /\ ranked_chunks = <<>>
    /\ ranked_matrix = EmptyTable
    /\ saved = EmptyTable

\* load the mapping, transpose, map to ids, drop, coerce and collapse
Harmonize ==
    /\ sig_pc = "load"
    /\ LET t == Transpose(l2fc_df)
           ids == MapIndex(t.index, GeneNameToEntrez(variant, gene_map))
       IN  transposed' = CollapseByEntrez(t, ids)
    /\ shared_entrez_ids' =
          IF variant = "shared" THEN SharedEntrezIds(gene_map) ELSE {}
    /\ sig_pc' = IF variant = "shared" THEN "filter" ELSE "rank"
    /\ UNCHANGED <<variant, l2fc_df, gene_map, rank_chunk_size, rank_start,
                   ranked_chunks, ranked_matrix, saved>>
    /\ UNCHANGED nonSigVars

\* the hard filter to the shared set (shared-gene scripts only)
EnforceSharedSet ==
    /\ sig_pc = "filter"
    /\ transposed' = HardFilter(transposed, shared_entrez_ids)
    /\ sig_pc' = "rank"
    /\ UNCHANGED <<inputSigVars, rank_chunk_size, rank_start, ranked_chunks,
                   ranked_matrix, saved>>
    /\ UNCHANGED nonSigVars

NextSig ==
    \/ Harmonize
    \/ EnforceSharedSet
    \/ RankChunk
    \/ ConcatRanked
    \/ SaveRanked

-----------------------------------------------------------------------------
(* generate_valid_instances: the statistics *)

\* a row of results_df as calculate_raw_stats builds it (no 'valid' column)
StatRecord(id, drug_name, r, p, num_peers) ==
    [id |-> id, drug_name |-> drug_name, r |-> r, p |-> p, num_peers |-> num_peers]

\* the same row with the 'valid' column set
WithValid(rec, v) ==
    [id |-> rec.id, drug_name |-> rec.drug_name, r |-> rec.r, p |-> rec.p,
     num_peers |-> rec.num_peers, valid |-> v]

\* the empty cell of the name column (read_csv gives NaN)
NoName == ""

\* the perturbation names of the metadata, in sorted order
DrugNames == <<"d1", "d2">>

RECURSIVE SumInts(_)
SumInts(s) == IF s = <<>> THEN 0 ELSE Head(s) + SumInts(Tail(s))

\* n * sum(x*y) - sum(x) * sum(y): n^2 times the covariance
CoMoment(x, y) ==
    Len(x) * SumInts([g \in 1..Len(x) |-> x[g] * y[g]]) - SumInts(x) * SumInts(y)

\* floor of the square root of n, for 0 <= n <= 10000
ISqrt(n) == CHOOSE k \in 0..100 : k * k <= n /\ n < (k + 1) * (k + 1)

\* two-sided p-value of |r| (in hundredths) for vectors of length 3, in
\* thousandths: 1 - (2/pi) * asin(|r|)
PTable3 ==
    <<
       1000, 994, 987, 981, 975, 968, 962, 955, 949, 943, 936, 930,
       923, 917, 911, 904, 898, 891, 885, 878, 872, 865, 859, 852,
       846, 839, 833, 826, 819, 813, 806, 799, 793, 786, 779, 772,
       766, 759, 752, 745, 738, 731, 724, 717, 710, 703, 696, 689,
       681, 674, 667, 659, 652, 644, 637, 629, 622, 614, 606, 598,
       590, 582, 574, 566, 558, 550, 541, 533, 524, 515, 506, 497,
       488, 479, 470, 460, 450, 441, 430, 420, 410, 399, 388, 377,
       365, 353, 341, 328, 315, 301, 287, 272, 256, 240, 222, 202,
       181, 156, 128, 90, 0
    >>

\* scipy.stats.pearsonr(x, y) for a vector x of whole numbers and a vector y
\* whose entries share one denominator; r is invariant under the scaling of
\* y, so the numerators are used.  r is cut to hundredths; the result is
\* <<r, p>>, <<NaN, NaN>> for a constant input, and "ValueError" is raised
\* for fewer than 2 entries.
PearsonR(x, y) ==
    LET yn == [g \in 1..Len(y) |-> y[g][1]]
        sxx == CoMoment(x, x)
        syy == CoMoment(yn, yn)
        sxy == CoMoment(x, yn)
        r100 == (IF sxy < 0 THEN -1 ELSE 1) * ISqrt((10000 * sxy * sxy) \div (sxx * syy))
    IN  IF Len(x) < 2 THEN "ValueError"
        ELSE IF sxx = 0 \/ syy = 0 THEN <<NaN, NaN>>
        ELSE IF Len(x) = 2 THEN <<F(IF sxy < 0 THEN -1 ELSE 1), F(1)>>
        ELSE <<Norm(<<r100, 100>>), Norm(<<PTable3[Abs(r100) + 1], 1000>>)>>

\* a scoring step that lets an undefined correlation through as (NaN, NaN)
GuardedPearsonUnguarded(x, y) ==
    IF Len(x) < 2 THEN <<NaN, NaN>> ELSE PearsonR(x, y)

\* the try/except around pearsonr: a NaN r or a ValueError gives (0.0, 1.0)
GuardedPearson(x, y) ==
    LET rp == PearsonR(x, y)
    IN  IF rp = "ValueError" THEN <<F(0), F(1)>>
        ELSE IF IsNaN(rp[1]) THEN <<F(0), F(1)>>
        ELSE rp

\* the record of an experiment that gets the sentinel of a degenerate
\* correlation although it has no peer
SingletonRecordAsSentinel(inst_id, drug_name) ==
    StatRecord(inst_id, drug_name, F(0), F(1), 0)

\* the record of an experiment of a group with at most one member in the matrix
SingletonRecord(inst_id, drug_name) ==
    StatRecord(inst_id, drug_name, NaN, NaN, 0)

\* metadata.groupby(drug_col_name): the group keys in sorted order; rows whose
\* name is missing belong to no group
GroupKeys(md) ==
    SelectSeq(DrugNames, LAMBDA name : \E i \in 1..Len(md) : md[i].name = name)

\* group[instance_col_name].tolist()
InstanceIds(md, drug_name) ==
    LET rows == SelectSeq(md, LAMBDA row : row.name = drug_name)
    IN  [i \in 1..Len(rows) |-> rows[i].id]

\* [pid for pid in instance_ids if pid in sig_matrix.columns]
ValidMatrixIds(sig_matrix, md, drug_name) ==
    SelectSeq(InstanceIds(md, drug_name), LAMBDA pid : pid \in DOMAIN sig_matrix)

\* drug_sig_matrix.sum(axis=1)
TotalSumVector(sig_matrix, valid_matrix_ids) ==
    [g \in 1..Len(sig_matrix[valid_matrix_ids[1]]) |->
        SumInts([i \in 1..Len(valid_matrix_ids) |-> sig_matrix[valid_matrix_ids[i]][g]])]

\* a peer sum that still holds the instance's own signature
PeerSumVectorWithSelf(sig_matrix, valid_matrix_ids, inst_id) ==
    TotalSumVector(sig_matrix, valid_matrix_ids)

\* total_sum_vector - current_instance_sig
PeerSumVector(sig_matrix, valid_matrix_ids, inst_id) ==
    LET total_sum_vector == TotalSumVector(sig_matrix, valid_matrix_ids)
    IN  [g \in 1..Len(total_sum_vector) |-> total_sum_vector[g] - sig_matrix[inst_id][g]]

\* peer_sum_vector / (num_instances - 1)
PeerConsensus(sig_matrix, valid_matrix_ids, inst_id) ==
    LET peer_sum_vector == PeerSumVector(sig_matrix, valid_matrix_ids, inst_id)
    IN  [g \in 1..Len(peer_sum_vector) |->
            <<peer_sum_vector[g], Len(valid_matrix_ids) - 1>>]

\* the records one iteration of the loop over the drug groups appends
GroupRecords(sig_matrix, md, drug_name) ==
    LET instance_ids == InstanceIds(md, drug_name)
        valid_matrix_ids == ValidMatrixIds(sig_matrix, md, drug_name)
        num_instances == Len(valid_matrix_ids)
        scored(inst_id) ==
            LET rp == GuardedPearson(sig_matrix[inst_id],
                                     PeerConsensus(sig_matrix, valid_matrix_ids, inst_id))
            IN  StatRecord(inst_id, drug_name, rp[1], rp[2], num_instances - 1)
    IN  IF num_instances <= 1
        THEN [i \in 1..Len(instance_ids) |-> SingletonRecord(instance_ids[i], drug_name)]
        ELSE [i \in 1..num_instances |-> scored(valid_matrix_ids[i])]

-----------------------------------------------------------------------------
(* generate_valid_instances: apply_filters *)

\* np.nanpercentile(rs, q), linear interpolation, for a non-empty list of
\* present values and 0 <= q <= 100
NanPercentile(rs, q) ==
    LET a == SortSeq(rs, LAMBDA x, y : FLt(x, y))
        n == Len(a)
        h == Norm(<<(n - 1) * q[1], 100 * q[2]>>)    \* virtual index, 0-based
        lo == h[1] \div h[2]
        frac == <<h[1] % h[2], h[2]>>
    IN  IF frac[1] = 0 THEN a[lo + 1]
        ELSE FAdd(a[lo + 1], FMul(FSub(a[lo + 2], a[lo + 1]), frac))

\* a p-value test that accepts the records above the threshold
PvalueMaskReversed(rec, tau) == FGt(rec.p, tau) /\ FGt(rec.r, F(0))

\* the p-value test with <= in place of <
PvalueMaskInclusive(rec, tau) == FLe(rec.p, tau) /\ FGt(rec.r, F(0))

\* mask of the p-value mode
PvalueMask(rec, tau) == FLt(rec.p, tau) /\ FGt(rec.r, F(0))

\* mask of the r-value mode
RvalueMask(rec, tau) == FGt(rec.r, tau)

\* a cutoff at the threshold-th percentile instead of the (100 - threshold)-th
PercentileCutoffSwapped(df, tau) ==
    LET rankable == SelectSeq(df, LAMBDA rec : ~IsNaN(rec.r))
    IN  NanPercentile([i \in 1..Len(rankable) |-> rankable[i].r], tau)

\* r_cutoff of the percentile mode (rankable must not be empty)
PercentileCutoff(df, tau) ==
    LET rankable == SelectSeq(df, LAMBDA rec : ~IsNaN(rec.r))
        percentile_cutoff == FSub(F(100), tau)
    IN  NanPercentile([i \in 1..Len(rankable) |-> rankable[i].r], percentile_cutoff)

\* mask of the percentile mode
PercentileMask(rec, cutoff) == FGe(rec.r, cutoff) /\ FGt(rec.r, F(0))

\* does apply_filters raise?  An empty results_df has no column 'r' (KeyError);
\* np.nanpercentile rejects a percentile outside [0, 100] (ValueError).
ApplyFiltersRaises(df, mode, tau) ==
    \/ df = <<>>
    \/ /\ mode = "percentile"
       /\ \E i \in 1..Len(df) : ~IsNaN(df[i].r)
       /\ (FLt(FSub(F(100), tau), F(0)) \/ FGt(FSub(F(100), tau), F(100)))

\* the cutoff apply_filters computes, NaN when it computes none
CutoffOf(df, mode, tau) ==
    IF mode = "percentile" /\ \E i \in 1..Len(df) : ~IsNaN(df[i].r)
    THEN PercentileCutoff(df, tau)
    ELSE NaN

\* results_df after apply_filters(results_df, mode, threshold)
ApplyFilters(df, mode, tau) ==
    [i \in 1..Len(df) |->
        LET rec == df[i]
            valid_stats_mask == ~IsNaN(rec.r)
            mask == CASE mode = "pvalue" -> PvalueMask(rec, tau)
                      [] mode = "rvalue" -> RvalueMask(rec, tau)
                      [] mode = "percentile" ->
                            /\ \E j \in 1..Len(df) : ~IsNaN(df[j].r)
                            /\ PercentileMask(rec, PercentileCutoff(df, tau))
        IN  WithValid(rec, IF valid_stats_mask /\ mask THEN 1 ELSE 0)]

\* (mode, threshold) pairs a run is started with; 0.05 and 0.2 are the
\* documented defaults of the p-value and r-value modes
FilterArgs ==
    {<<"pvalue", <<5, 100>>>>, <<"pvalue", <<1, 1000>>>>, <<"pvalue", F(2)>>,
     <<"rvalue", <<2, 10>>>>, <<"rvalue", F(-2)>>,
     <<"percentile", F(50)>>, <<"percentile", F(25)>>, <<"percentile", F(100)>>,
     <<"percentile", F(0)>>, <<"percentile", F(120)>>}

\* --filter-mode: choices pvalue, rvalue, percentile; default 'pvalue'
DefaultFilterMode == "pvalue"

\* --threshold: type float, default 0.05 (one default for every mode)
DefaultThreshold == <<5, 100>>

\* args.filter_mode
ParseFilterMode(cmd) ==
    IF cmd.filter_mode = "absent" THEN DefaultFilterMode ELSE cmd.filter_mode

\* args.threshold
ParseThreshold(cmd) ==
    IF cmd.threshold = Absent THEN DefaultThreshold ELSE cmd.threshold

\* the command lines of the whole-run model
RunArgv ==
    {[filter_mode |-> "pvalue", threshold |-> Absent],
     [filter_mode |-> "rvalue", threshold |-> Absent],
     [filter_mode |-> "rvalue", threshold |-> F(-2)],
     [filter_mode |-> "percentile", threshold |-> F(50)],
     [filter_mode |-> "percentile", threshold |-> F(100)]}

\* the (mode, threshold) pairs of the whole-run model
RunArgs == {<<ParseFilterMode(cmd), ParseThreshold(cmd)>> : cmd \in RunArgv}

-----------------------------------------------------------------------------
(* apply_filters called on a table of records *)

\* (r, p, num_peers) of a record: a singleton record, or a scored one; r = 0
\* comes with p = 1, as pearsonr and the degenerate sentinel give it
StatKinds ==
    {<<NaN, NaN, 0>>}
    \cup {<<r, p, 1>> : r \in {<<-5, 10>>, <<2, 10>>, <<8, 10>>},
                        p \in {<<1, 1000>>, <<5, 100>>}}
    \cup {<<F(0), F(1), 1>>}

InitFilter ==
    /\ val_pc = "stats_done"
    /\ sigs = <<>>
    /\ meta = <<>>
    /\ sigs_filt = <<>>
    /\ meta_filt = <<>>
    /\ groups_done = 0
    /\ \E s \in SeqsUpTo(StatKinds, MaxRecs) :
          results_df = [i \in 1..Len(s) |->
                           StatRecord(i, "d1", s[i][1], s[i][2], s[i][3])]
    /\ filter_mode = "pvalue"
    /\ threshold = <<5, 100>>
    /\ r_cutoff = NaN
    /\ csv = <<>>
    /\ argv = NoArgv
    /\ load_error = ""

\* a call apply_filters(results_df, mode, threshold) that returns
ApplyFiltersCall(mode, tau) ==
    /\ val_pc \in {"stats_done", "filtered"}
    /\ ~ApplyFiltersRaises(results_df, mode, tau)
    /\ results_df' = ApplyFilters(results_df, mode, tau)
    /\ r_cutoff' = CutoffOf(results_df, mode, tau)
    /\ filter_mode' = mode
    /\ threshold' = tau
    /\ val_pc' = "filtered"
    /\ UNCHANGED <<sigs, meta, sigs_filt, meta_filt, groups_done, csv>>
    /\ UNCHANGED <<argv, load_error>>
    /\ UNCHANGED nonValVars

\* a call that raises: 'valid' has been set to 0 on every row before
ApplyFiltersFails(mode, tau) ==
    /\ val_pc \in {"stats_done", "filtered"}
    /\ ApplyFiltersRaises(results_df, mode, tau)
    /\ results_df' = [i \in 1..Len(results_df) |-> WithValid(results_df[i], 0)]
    /\ r_cutoff' = NaN
    /\ filter_mode' = mode
    /\ threshold' = tau
    /\ val_pc' = "failed"
    /\ UNCHANGED <<sigs, meta, sigs_filt, meta_filt, groups_done, csv>>
    /\ UNCHANGED <<argv, load_error>>
    /\ UNCHANGED nonValVars

NextFilter ==
    \/ \E a \in FilterArgs : ApplyFiltersCall(a[1], a[2])
    \/ \E a \in FilterArgs : ApplyFiltersFails(a[1], a[2])

-----------------------------------------------------------------------------
(* generate_valid_instances: main *)

\* the orderings of three genes
Perms == <<<<1, 2, 3>>, <<1, 3, 2>>, <<3, 2, 1>>, <<2, 1, 3>>, <<2, 3, 1>>, <<3, 1, 2>>>>

\* the signature of experiment id in a matrix of the given kind: every
\* experiment alike, every experiment its own ordering, every second
\* experiment without any variation, or a matrix of a single gene
SigVector(kind, id) ==
    CASE kind = "same" -> Perms[1]
      [] kind = "mixed" -> Perms[((id - 1) % Len(Perms)) + 1]
      [] kind = "flat" -> IF id % 2 = 0 THEN <<2, 2, 2>> ELSE Perms[1]
      [] kind = "short" -> <<id>>

\* state after load_tahoe_data / load_cmap_data returned a matrix and the
\* metadata: ids are unique in the metadata; the matrix has a column the
\* metadata does not list, and may lack one the metadata lists
InitStats ==
    /\ val_pc = "start"
    /\ \E present \in SUBSET (1..MaxInst) :
         \E names \in [present -> Range(DrugNames) \cup {NoName}] :
            LET ids == SortedSeqOf(present)
            IN  meta = [i \in 1..Len(ids) |-> [id |-> ids[i], name |-> names[ids[i]]]]
    /\ \E kind \in {"same", "mixed", "flat", "short"}, missing \in 0..MaxInst :
          sigs = [id \in (1..(MaxInst + 1)) \ {missing} |-> SigVector(kind, id)]
    /\ argv \in RunArgv
    /\ filter_mode = ParseFilterMode(argv)
    /\ threshold = ParseThreshold(argv)
    /\ sigs_filt = <<>>
    /\ meta_filt = <<>>
    /\ groups_done = 0
    /\ results_df = <<>>
    /\ r_cutoff = NaN
    /\ csv = <<>>
    /\ load_error = ""

\* what can go wrong in load_tahoe_data / load_cmap_data
LoadFaults == {"metadata file missing", "signature file missing",
               "gene id column missing"}

\* load_*_data returns the matrix and the metadata
LoadData ==
    /\ val_pc = "start"
    /\ val_pc' = "loaded"
    /\ UNCHANGED <<sigs, meta, sigs_filt, meta_filt, groups_done, results_df,
                   filter_mode, threshold, r_cutoff, csv, argv, load_error>>
    /\ UNCHANGED nonValVars

\* load_*_data meets a fatal input error: it prints it and returns
\* (None, None); main skips the 'if sigs is not None and meta is not None'
\* block, prints "Validation Complete" and returns (exit status 0)
LoadDataFails ==
    /\ val_pc = "start"
    /\ load_error' \in LoadFaults
    /\ sigs' = <<>>
    /\ meta' = <<>>
    /\ val_pc' = "complete"
    /\ UNCHANGED <<sigs_filt, meta_filt, groups_done, results_df, filter_mode,
                   threshold, r_cutoff, csv, argv>>
    /\ UNCHANGED nonValVars

\* the report is written and main returns (exit status 0)
FinishValidation ==
    /\ val_pc = "saved"
    /\ val_pc' = "complete"
    /\ UNCHANGED <<sigs, meta, sigs_filt, meta_filt, groups_done, results_df,
                   filter_mode, threshold, r_cutoff, csv, argv, load_error>>
    /\ UNCHANGED nonValVars

\* common_ids, sigs_filt, meta_filt
FilterCommon ==
    /\ val_pc = "loaded"
    /\ LET common_ids == DOMAIN sigs \cap {meta[i].id : i \in 1..Len(meta)}
       IN  /\ sigs_filt' = [id \in common_ids |-> sigs[id]]
           /\ meta_filt' = SelectSeq(meta, LAMBDA row : row.id \in common_ids)
    /\ val_pc' = "stats"
    /\ UNCHANGED <<sigs, meta, groups_done, results_df, filter_mode, threshold,
                   r_cutoff, csv>>
    /\ UNCHANGED <<argv, load_error>>
    /\ UNCHANGED nonValVars

\* one iteration of the loop of calculate_raw_stats over the drug groups
ProcessDrugGroup ==
    /\ val_pc = "stats"
    /\ groups_done < Len(GroupKeys(meta_filt))
    /\ results_df' = results_df
            \o GroupRecords(sigs_filt, meta_filt, GroupKeys(meta_filt)[groups_done + 1])
    /\ groups_done' = groups_done + 1
    /\ UNCHANGED <<val_pc, sigs, meta, sigs_filt, meta_filt, filter_mode, threshold,
                   r_cutoff, csv>>
    /\ UNCHANGED <<argv, load_error>>
    /\ UNCHANGED nonValVars

\* calculate_raw_stats returns and apply_filters classifies the records
ApplyFiltersMain ==
    /\ val_pc = "stats"
    /\ groups_done = Len(GroupKeys(meta_filt))
    /\ ~ApplyFiltersRaises(results_df, filter_mode, threshold)
    /\ results_df' = ApplyFilters(results_df, filter_mode, threshold)
    /\ r_cutoff' = CutoffOf(results_df, filter_mode, threshold)
    /\ val_pc' = "filtered"
    /\ UNCHANGED <<sigs, meta, sigs_filt, meta_filt, groups_done, filter_mode,
                   threshold, csv>>
    /\ UNCHANGED <<argv, load_error>>
    /\ UNCHANGED nonValVars

\* apply_filters raises (no record at all): the run ends without a CSV
ApplyFiltersMainFails ==
    /\ val_pc = "stats"
    /\ groups_done = Len(GroupKeys(meta_filt))
    /\ ApplyFiltersRaises(results_df, filter_mode, threshold)
    /\ val_pc' = "failed"
    /\ UNCHANGED <<sigs, meta, sigs_filt, meta_filt, groups_done, results_df,
                   filter_mode, threshold, r_cutoff, csv>>
    /\ UNCHANGED <<argv, load_error>>
    /\ UNCHANGED nonValVars

\* results_df.to_csv
SaveCsv ==
    /\ val_pc = "filtered"
    /\ csv' = results_df
    /\ val_pc' = "saved"
    /\ UNCHANGED <<sigs, meta, sigs_filt, meta_filt, groups_done, results_df,
                   filter_mode, threshold, r_cutoff>>
    /\ UNCHANGED <<argv, load_error>>
    /\ UNCHANGED nonValVars

NextStats ==
    \/ LoadData
    \/ LoadDataFails
    \/ FinishValidation
    \/ FilterCommon
    \/ ProcessDrugGroup
    \/ ApplyFiltersMain
    \/ ApplyFiltersMainFails
    \/ SaveCsv

-----------------------------------------------------------------------------
(* create_tahoe_og_signatures_hpc.main: the two stages and their skipping *)

\* the driver is not running
IdleDrv ==
    /\ drv_pc = "idle"
    /\ skip_part1 = FALSE
    /\ skip_part2 = FALSE
    /\ force = FALSE
    /\ parquet_file = "absent"
    /\ rdata_file = "absent"
    /\ part1_runs = 0
    /\ part2_runs = 0
    /\ run_no = 0
    /\ parquet_gen = 0
    /\ rdata_from = 0

FileStates == {"absent", "partial", "complete"}

\* Path.exists(): a file exists whatever it holds
Exists(file) == file # "absent"

\* a stage that never takes its output for done
AlreadyCompletedNever(file, forced) == FALSE

\* "Check if already completed": output_file.exists() and not args.force
AlreadyCompleted(file, forced) == Exists(file) /\ ~forced

\* main after parse_arguments: any flags, any files left by earlier runs
InitDrv ==
    /\ drv_pc = "part1"
    /\ skip_part1 \in BOOLEAN
    /\ skip_part2 \in BOOLEAN
    /\ force \in BOOLEAN
    /\ parquet_file \in FileStates
    /\ rdata_file \in FileStates
    /\ part1_runs = 0
    /\ part2_runs = 0
    /\ run_no = 1
    /\ parquet_gen = 0
    /\ rdata_from = 0

\* --skip-part1: the file of an earlier run is used if it exists, otherwise
\* FileNotFoundError
SkipPart1 ==
    /\ drv_pc = "part1"
    /\ skip_part1
    /\ drv_pc' = IF Exists(parquet_file) THEN "part2" ELSE "failed"
    /\ UNCHANGED <<skip_part1, skip_part2, force, parquet_file, rdata_file,
                   part1_runs, part2_runs>>
    /\ UNCHANGED <<run_no, parquet_gen, rdata_from>>
    /\ UNCHANGED nonDrvVars

\* part1_h5_to_parquet is called: it returns at once when its output is taken
\* for done, otherwise its body starts
EnterPart1 ==
    /\ drv_pc = "part1"
    /\ ~skip_part1
    /\ IF AlreadyCompleted(parquet_file, force)
       THEN drv_pc' = "part2" /\ part1_runs' = part1_runs
       ELSE drv_pc' = "part1_body" /\ part1_runs' = part1_runs + 1
    /\ UNCHANGED <<skip_part1, skip_part2, force, parquet_file, rdata_file, part2_runs>>
    /\ UNCHANGED <<run_no, parquet_gen, rdata_from>>
    /\ UNCHANGED nonDrvVars

\* the body of Part 1 writes its output and returns
Part1Completes ==
    /\ drv_pc = "part1_body"
    /\ parquet_file' = "complete"
    /\ parquet_gen' = run_no
    /\ drv_pc' = "part2"
    /\ UNCHANGED <<run_no, rdata_from>>
    /\ UNCHANGED <<skip_part1, skip_part2, force, rdata_file, part1_runs, part2_runs>>
    /\ UNCHANGED nonDrvVars

\* the body of Part 1 raises: before the writer is opened the file is left as
\* it was, afterwards it is left partly written
Part1Raises ==
    /\ drv_pc = "part1_body"
    /\ \/ parquet_file' = parquet_file /\ parquet_gen' = parquet_gen
       \/ parquet_file' = "partial" /\ parquet_gen' = run_no
    /\ drv_pc' = "failed"
    /\ UNCHANGED <<run_no, rdata_from>>
    /\ UNCHANGED <<skip_part1, skip_part2, force, rdata_file, part1_runs, part2_runs>>
    /\ UNCHANGED nonDrvVars

\* --skip-part2
SkipPart2 ==
    /\ drv_pc = "part2"
    /\ skip_part2
    /\ drv_pc' = "done"
    /\ UNCHANGED <<skip_part1, skip_part2, force, parquet_file, rdata_file,
                   part1_runs, part2_runs>>
    /\ UNCHANGED <<run_no, parquet_gen, rdata_from>>
    /\ UNCHANGED nonDrvVars

\* part2_rank_and_save is called
EnterPart2 ==
    /\ drv_pc = "part2"
    /\ ~skip_part2
    /\ IF AlreadyCompleted(rdata_file, force)
       THEN drv_pc' = "done" /\ part2_runs' = part2_runs
       ELSE drv_pc' = "part2_body" /\ part2_runs' = part2_runs + 1
    /\ UNCHANGED <<skip_part1, skip_part2, force, parquet_file, rdata_file, part1_runs>>
    /\ UNCHANGED <<run_no, parquet_gen, rdata_from>>
    /\ UNCHANGED nonDrvVars

\* the body of Part 2 reads the Part 1 file, ranks and saves
Part2Completes ==
    /\ drv_pc = "part2_body"
    /\ parquet_file = "complete"
    /\ rdata_file' = "complete"
    /\ rdata_from' = parquet_gen
    /\ drv_pc' = "done"
    /\ UNCHANGED <<run_no, parquet_gen>>
    /\ UNCHANGED <<skip_part1, skip_part2, force, parquet_file, part1_runs, part2_runs>>
    /\ UNCHANGED nonDrvVars

\* the body of Part 2 raises (a missing gene map, an unreadable Part 1 file,
\* an error while saving)
Part2Raises ==
    /\ drv_pc = "part2_body"
    /\ \/ rdata_file' = rdata_file /\ rdata_from' = rdata_from
       \/ rdata_file' = "partial" /\ rdata_from' = parquet_gen
    /\ drv_pc' = "failed"
    /\ UNCHANGED <<run_no, parquet_gen>>
    /\ UNCHANGED <<skip_part1, skip_part2, force, parquet_file, part1_runs, part2_runs>>
    /\ UNCHANGED nonDrvVars

\* most invocations of the driver in a sequence of runs
MaxRuns == 3

\* the first invocation on a disk that holds no output yet
InitFirstRun ==
    /\ drv_pc = "part1"
    /\ skip_part1 \in BOOLEAN
    /\ skip_part2 \in BOOLEAN
    /\ force \in BOOLEAN
    /\ parquet_file = "absent"
    /\ rdata_file = "absent"
    /\ part1_runs = 0
    /\ part2_runs = 0
    /\ run_no = 1
    /\ parquet_gen = 0
    /\ rdata_from = 0

\* the driver is invoked again, with any flags, after a run that ended
\* (sys.exit(0) or sys.exit(1)); the files are as that run left them
NewRun ==
    /\ drv_pc \in {"done", "failed"}
    /\ run_no < MaxRuns
    /\ run_no' = run_no + 1
    /\ drv_pc' = "part1"
    /\ skip_part1' \in BOOLEAN
    /\ skip_part2' \in BOOLEAN
    /\ force' \in BOOLEAN
    /\ part1_runs' = 0
    /\ part2_runs' = 0
    /\ UNCHANGED <<parquet_file, rdata_file, parquet_gen, rdata_from>>
    /\ UNCHANGED nonDrvVars

NextDrv ==
    \/ SkipPart1
    \/ EnterPart1
    \/ Part1Completes
    \/ Part1Raises
    \/ SkipPart2
    \/ EnterPart2
    \/ Part2Completes
    \/ Part2Raises

NextRuns ==
    \/ NextDrv
    \/ NewRun

-----------------------------------------------------------------------------
(* Significance gate (part1_h5_to_parquet, before the resource estimate) *)

\* P_VALUE_CHUNK_SIZE: rows of '/padj' read at a time
P_VALUE_CHUNK_SIZE == 1000

\* most runs of equal rows a '/padj' matrix of the model is made of
MaxPadjBlocks == 2

\* the '/padj' node: n_cols columns and, from the first row on, runs of n
\* equal rows each
NoPadj == [present |-> FALSE, n_cols |-> 0, blocks |-> <<>>]
Padj(n_cols, blocks) == [present |-> TRUE, n_cols |-> n_cols, blocks |-> blocks]
PadjBlock(n, row) == [n |-> n, row |-> row]

\* a local name that no statement has assigned yet
Unbound == [bound |-> FALSE, genes |-> <<>>]
Bound(genes) == [bound |-> TRUE, genes |-> genes]

\* padj_node.shape[0]
RECURSIVE PadjRows(_)
PadjRows(blocks) ==
    IF blocks = <<>> THEN 0 ELSE Head(blocks).n + PadjRows(Tail(blocks))

\* a comparison that leaves out the values equal to the threshold
BelowThreshold(x, t) == FLt(x, t)

\* padj <= args.padj_threshold, element-wise (False for NaN)
AtMostThreshold(x, t) == FLe(x, t)

\* np.any(padj_node[start:end, :] <= threshold, axis=0)
ChunkAny(p, t, start, end) ==
    [c \in 1..p.n_cols |->
        \E b \in 1..Len(p.blocks) :
            LET first == PadjRows(SubSeq(p.blocks, 1, b - 1))
            IN  /\ first < end
                /\ first + p.blocks[b].n > start
                /\ AtMostThreshold(p.blocks[b].row[c], t)]

\* a scan that stops as soon as one gene is significant
RECURSIVE ScanPadjUntilAny(_, _, _, _)
ScanPadjUntilAny(p, t, start, is_significant) ==
    IF start >= PadjRows(p.blocks)
    THEN [is_significant |-> is_significant, read |-> PadjRows(p.blocks)]
    ELSE LET end == Min2(start + P_VALUE_CHUNK_SIZE, PadjRows(p.blocks))
             any == ChunkAny(p, t, start, end)
             now == [c \in 1..p.n_cols |-> is_significant[c] \/ any[c]]
         IN  IF \E c \in 1..p.n_cols : now[c]
             THEN [is_significant |-> now, read |-> end]
             ELSE ScanPadjUntilAny(p, t, start + P_VALUE_CHUNK_SIZE, now)

\* the loop "for start in range(0, n_rows_padj, P_VALUE_CHUNK_SIZE)" with its
\* break; 'read' is the end of the last chunk read
RECURSIVE ScanPadj(_, _, _, _)
ScanPadj(p, t, start, is_significant) ==
    IF start >= PadjRows(p.blocks)
    THEN [is_significant |-> is_significant, read |-> Min2(start, PadjRows(p.blocks))]
    ELSE LET end == Min2(start + P_VALUE_CHUNK_SIZE, PadjRows(p.blocks))
             any == ChunkAny(p, t, start, end)
             now == [c \in 1..p.n_cols |-> is_significant[c] \/ any[c]]
         IN  IF \A c \in 1..p.n_cols : now[c]
             THEN [is_significant |-> now, read |-> end]
             ELSE ScanPadj(p, t, start + P_VALUE_CHUNK_SIZE, now)

\* tahoe_genes_all[tahoe_genes_all["gene_idx"].isin(
\*     tahoe_genes_all.sort_values("gene_idx")["gene_idx"].to_numpy()[is_significant])]
FilterGenes(genes, is_significant) ==
    LET all_indices_in_h5_order == NpSort(genes)
        kept_indices_in_h5_order ==
            {all_indices_in_h5_order[j] : j \in {i \in 1..Len(genes) : is_significant[i]}}
    IN  SelectSeq(genes, LAMBDA g : g \in kept_indices_in_h5_order)

\* sorted(df["gene_idx"].unique().tolist())
SortedUnique(genes) == SortedSeqOf(Range(genes))

IdleGate ==
    /\ enable_filter = FALSE
    /\ padj = NoPadj
    /\ padj_threshold = <<5, 100>>
    /\ tahoe_genes_all = <<>>
    /\ tahoe_genes_filtered = Unbound
    /\ padj_read = 0

\* the rows a '/padj' matrix of the model is made of: adjusted p-values of
\* three genes, under, at and over 0.05, or missing
PadjRowKinds ==
    {<<(<<1, 100>>), (<<1, 2>>), (<<1, 2>>)>>,
     <<(<<1, 2>>), (<<5, 100>>), NaN>>,
     <<(<<1, 2>>), (<<1, 2>>), (<<6, 100>>)>>,
     <<(<<1, 100>>), (<<1, 100>>), (<<5, 100>>)>>,
     <<NaN, NaN, (<<1, 2>>)>>}

\* lengths of the runs: one row, a chunk less one row, a whole chunk
PadjRunLengths == {1, P_VALUE_CHUNK_SIZE - 1, P_VALUE_CHUNK_SIZE}

PadjChoices ==
    {NoPadj, Padj(2, <<>>)} \cup
    {Padj(NodeShape[2], blocks) :
        blocks \in SeqsUpTo({PadjBlock(n, row) : n \in PadjRunLengths,
                                                 row \in PadjRowKinds},
                            MaxPadjBlocks)}

\* part1_h5_to_parquet once the gene and experiment files are loaded
InitGate ==
    /\ ext_pc = "filter"
    /\ enable_filter \in BOOLEAN
    /\ padj \in PadjChoices
    /\ padj_threshold = <<5, 100>>
    /\ tahoe_genes_all \in {<<0, 1, 2>>, <<2, 0, 1>>}
    /\ tahoe_genes_filtered = Unbound
    /\ padj_read = 0
    /\ row_idx_keep = <<2, 0, 1>>
    /\ col_idx_keep = <<>>
    /\ n_cores = 2
    /\ disk_free = AmpleDisk
    /\ dispatched = <<>>
    /\ ext_error = ""
    /\ row_chunks = <<>>
    /\ col_sorted = <<>>
    /\ col_unsort = <<>>
    /\ results = <<>>
    /\ parquet = <<>>

\* the conditional p-adjusted filtration and the checks that follow it
ApplyGeneFilter ==
    /\ ext_pc = "filter"
    /\ IF ~enable_filter
       THEN \* filter not enabled: keep all genes
            /\ col_idx_keep' = SortedUnique(tahoe_genes_all)
            /\ tahoe_genes_filtered' = Bound(tahoe_genes_all)
            /\ padj_read' = padj_read
            /\ ext_pc' = "estimate"
            /\ ext_error' = ext_error
       ELSE IF ~padj.present
       THEN \* no '/padj' node: col_idx_keep is set, tahoe_genes_filtered is
            \* not, and the statement that reads it next raises
            /\ col_idx_keep' = SortedUnique(tahoe_genes_all)
            /\ tahoe_genes_filtered' = tahoe_genes_filtered
            /\ padj_read' = padj_read
            /\ ext_pc' = "failed"
            /\ ext_error' = "UnboundLocalError"
       ELSE IF padj.n_cols # Len(tahoe_genes_all)
       THEN /\ col_idx_keep' = <<>>
            /\ tahoe_genes_filtered' = tahoe_genes_filtered
            /\ padj_read' = padj_read
            /\ ext_pc' = "failed"
            /\ ext_error' = "P-value matrix columns mismatch with gene metadata."
       ELSE LET scan == ScanPadj(padj, padj_threshold, 0,
                                 [c \in 1..padj.n_cols |-> FALSE])
                filtered == FilterGenes(tahoe_genes_all, scan.is_significant)
            IN  /\ col_idx_keep' = SortedUnique(filtered)
                /\ tahoe_genes_filtered' = Bound(filtered)
                /\ padj_read' = scan.read
                /\ IF SortedUnique(filtered) = <<>>
                   THEN /\ ext_pc' = "failed"
                        /\ ext_error' = "No genes kept. Check filter threshold or input files."
                   ELSE /\ ext_pc' = "estimate"
                        /\ ext_error' = ext_error
    /\ UNCHANGED <<row_idx_keep, n_cores, row_chunks, col_sorted, col_unsort,
                   results, parquet, disk_free, dispatched>>
    /\ UNCHANGED <<enable_filter, padj, padj_threshold, tahoe_genes_all>>
    /\ UNCHANGED <<sigVars, valVars, drvVars, rdVars>>

NextGate ==
    \/ ApplyGeneFilter
    \/ NextPart1

-----------------------------------------------------------------------------
(* The RData serializer (part2_rank_and_save) and the validator's RData loader *)

DigitChars == <<"0", "1", "2", "3", "4", "5", "6", "7", "8", "9">>

\* str(n) / f"{n}" for n >= 0: the decimal digits, most significant first
RECURSIVE Str(_)
Str(n) ==
    IF n < 10 THEN <<DigitChars[n + 1]>>
    ELSE Str(n \div 10) \o <<DigitChars[(n % 10) + 1]>>

\* int(s) for a string of decimal digits
RECURSIVE ParseInt(_)
ParseInt(s) ==
    IF s = <<>> THEN 0
    ELSE 10 * ParseInt(SubSeq(s, 1, Len(s) - 1))
         + ((CHOOSE d \in 1..10 : DigitChars[d] = s[Len(s)]) - 1)

\* f"V{j}"
VName(j) == <<"V">> \o Str(j)

\* str(int(col[1:]) - 2)
LoadedLabel(col) == Str(ParseInt(Tail(col)) - 2)

\* cmap_like: column V1 holds the index, column V{j}, j = 2, 3, ..., the
\* j-2'th column of the ranked matrix (0-based)
CmapLike(t) ==
    [names |-> [j \in 1..(Len(t.columns) + 1) |-> VName(j)],
     V1 |-> t.index,
     data |-> t.data]

NoCmapLike == [names |-> <<>>, V1 |-> <<>>, data |-> <<>>]

IdleRData ==
    /\ cmap_like = NoCmapLike
    /\ tahoe_sigs_columns = <<>>

\* largest experiment id of the model's experiment files
MaxExpId == 3

\* experiment ids of an experiments file, as Part 1 writes them: ascending
ExperimentIdLists ==
    {s \in SeqsUpTo(0..MaxExpId, MaxExp) :
        Len(s) >= 1 /\ \A i, j \in 1..Len(s) : i < j => s[i] < s[j]}

\* Part 2 of the HPC pipeline at the ranking loop: the collapsed table of two
\* genes, one column per experiment of the Part 1 table, labelled by its id
InitRankHpc ==
    /\ sig_pc = "rank"
    /\ variant = "hpc"
    /\ l2fc_df = EmptyTable
    /\ gene_map = <<>>
    /\ shared_entrez_ids = {}
    /\ \E ids \in ExperimentIdLists, col \in [1..2 -> RankValues] :
          transposed = Table(<<10, 20>>, ids,
                             [e \in 1..Len(ids) |-> Rotate(col, e - 1)])
    /\ rank_chunk_size = DefaultChunkSize
    /\ rank_start = 0
    /\ ranked_chunks = <<>>
    /\ ranked_matrix = EmptyTable
    /\ saved = EmptyTable
    /\ IdleRData

\* "Convert to CMap format" and pyreadr.write_rdata
SaveRData ==
    /\ sig_pc = "save"
    /\ cmap_like' = CmapLike(ranked_matrix)
    /\ sig_pc' = "done"
    /\ UNCHANGED <<sigVars_but_pc, tahoe_sigs_columns>>
    /\ UNCHANGED <<extVars, valVars, drvVars, gateVars>>

\* load_tahoe_data, RData branch: set_index('V1') and the relabelling
LoadRData ==
    /\ sig_pc = "done"
    /\ tahoe_sigs_columns = <<>>
    /\ tahoe_sigs_columns' =
          [k \in 1..(Len(cmap_like.names) - 1) |-> LoadedLabel(cmap_like.names[k + 1])]
    /\ sig_pc' = "loaded"
    /\ UNCHANGED <<sigVars_but_pc, cmap_like>>
    /\ UNCHANGED <<extVars, valVars, drvVars, gateVars>>

NextRData ==
    \/ RankChunk
    \/ ConcatRanked
    \/ SaveRData
    \/ LoadRData

-----------------------------------------------------------------------------
(* Specifications *)

\* the extraction alone
InitExtract == InitExt /\ IdleSig /\ IdleVal /\ IdleDrv /\ IdleGate /\ IdleRData
SpecExtract == InitExtract /\ [][NextExt]_vars

\* the ranking loop and the serializer alone, from a collapsed table
InitRanking == InitRank /\ IdleExt /\ IdleVal /\ IdleDrv /\ IdleGate /\ IdleRData
SpecRank == InitRanking /\ [][NextRank]_vars

\* part1_h5_to_parquet from the resource estimate on, with failures
InitExtractionRun == InitPart1 /\ IdleSig /\ IdleVal /\ IdleDrv /\ IdleGate /\ IdleRData
SpecPart1 == InitExtractionRun /\ [][NextPart1]_vars

\* the same, the pool re-raising a worker's exception sooner or later
FairPart1 == SpecPart1 /\ WF_vars(ParallelRaises)

\* a run of the two-stage driver
InitDriver == InitDrv /\ IdleExt /\ IdleSig /\ IdleVal /\ IdleGate /\ IdleRData
SpecDrv == InitDriver /\ [][NextDrv]_vars

\* any sequence of invocations of the driver, from an empty output directory
InitRuns == InitFirstRun /\ IdleExt /\ IdleSig /\ IdleVal /\ IdleGate /\ IdleRData
SpecRuns == InitRuns /\ [][NextRuns]_vars

\* a whole run of the validator
InitValidation == InitStats /\ IdleExt /\ IdleSig /\ IdleDrv /\ IdleGate /\ IdleRData
SpecStats == InitValidation /\ [][NextStats]_vars

\* apply_filters on any table of records, called any number of times
InitFiltering == InitFilter /\ IdleExt /\ IdleSig /\ IdleDrv /\ IdleGate /\ IdleRData
SpecFilter == InitFiltering /\ [][NextFilter]_vars

\* part1_h5_to_parquet from the significance gate on
InitGatedRun == InitGate /\ IdleSig /\ IdleVal /\ IdleDrv /\ IdleRData
SpecGate == InitGatedRun /\ [][NextGate]_vars

\* Part 2 of the HPC pipeline from the ranking loop to the validator's loader
InitRDataRun == InitRankHpc /\ IdleExt /\ IdleVal /\ IdleDrv /\ IdleGate
SpecRData == InitRDataRun /\ [][NextRData]_vars

\* a whole Part 2 script: harmonize, (filter,) rank, save
InitSignature == InitSig /\ IdleExt /\ IdleVal /\ IdleDrv /\ IdleGate /\ IdleRData
SpecSig == InitSignature /\ [][NextSig]_vars

-----------------------------------------------------------------------------
(* C1 *)

\* C1: when the extraction is done, the output table has, for every row index,
\* as many rows keyed by that experiment_id as the target row list holds that
\* index (exactly one for an index listed once, none for an index not listed),
\* and every output row has one cell per target column, in the caller's column
\* order, cell j holding the source value at (that row, col_idx_keep[j]).
C1_ExtractionExact ==
    ext_pc = "done" =>
        /\ Len(parquet) = Len(row_idx_keep)
        /\ \A i \in RowIndices :
              Cardinality({n \in 1..Len(parquet) : parquet[n].experiment_id = i})
                 = Count(row_idx_keep, i)
        /\ \A n \in 1..Len(parquet) :
              /\ Len(parquet[n].vals) = Len(col_idx_keep)
              /\ \A j \in 1..Len(col_idx_keep) :
                    parquet[n].vals[j]
                       = Node(parquet[n].experiment_id, col_idx_keep[j])

\* C1 witness: a finished extraction of several rows, given out of order, over
\* several columns given in a non-ascending order, with more than one worker
C1_Witness ==
    /\ ext_pc = "done"
    /\ n_cores = 2
    /\ row_idx_keep = <<2, 0, 1>>
    /\ col_idx_keep = <<2, 0, 1>>
    /\ Len(parquet) = 3


-----------------------------------------------------------------------------
(* C2, C3 *)

\* number of retained genes of the run
RetainedG == Len(transposed.index)

\* C2: in the ranked matrix and in the saved table, every experiment column
\* holds every rank 1..G exactly once, G the number of retained genes.
C2_RanksArePermutation ==
    /\ sig_pc \in {"save", "done"} =>
          /\ Len(ranked_matrix.data) = Len(transposed.columns)
          /\ \A e \in 1..Len(ranked_matrix.data) :
                /\ Len(ranked_matrix.data[e]) = RetainedG
                /\ \A k \in 1..RetainedG :
                      Cardinality({g \in 1..RetainedG :
                                      ranked_matrix.data[e][g] = k}) = 1
    /\ sig_pc = "done" =>
          \A e \in 1..Len(saved.data) :
             {saved.data[e][g] : g \in 1..RetainedG} = 1..RetainedG

\* C2 witness: a ranked column whose input has a tie and two missing values
C2_Witness ==
    /\ sig_pc = "done"
    /\ RetainedG = 4
    /\ transposed.data[1] = <<F(5), NaN, F(5), NaN>>
    /\ ranked_matrix.data[1] = <<1, 3, 2, 4>>

\* C3: in every ranked column, of two genes the one with the larger effect
\* size has the smaller rank; of two genes with equal effect size the one in
\* the earlier row has the smaller rank; a gene with a missing value ranks
\* after every gene with a present value; and [0.5, -0.2, 3.0, NaN]
\* (here in tenths: 5, -2, 30, NaN) is ranked [2, 3, 1, 4].
C3_RankOrder ==
    sig_pc \in {"save", "done"} =>
        \A e \in 1..Len(ranked_matrix.data) :
           LET x == transposed.data[e]
               rk == ranked_matrix.data[e]
           IN  /\ \A g, h \in 1..RetainedG :
                     /\ FGt(x[g], x[h]) => rk[g] < rk[h]
                     /\ (FEq(x[g], x[h]) /\ g < h) => rk[g] < rk[h]
                     /\ (IsNaN(x[g]) /\ ~IsNaN(x[h])) => rk[g] > rk[h]
               /\ x = <<F(5), F(-2), F(30), NaN>> => rk = <<2, 3, 1, 4>>

\* C3 witness: the vector of the scenario has been ranked
C3_Witness ==
    /\ sig_pc = "done"
    /\ transposed.data[1] = <<F(5), F(-2), F(30), NaN>>
    /\ saved.data[1] = <<2, 3, 1, 4>>


-----------------------------------------------------------------------------
(* C4, C5, C6 *)

Harmonized == sig_pc \in {"filter", "rank", "save", "done"}

\* C4: once the table is harmonized, no canonical id labels two of its rows,
\* nor two rows of the ranked matrix or of the saved table.
C4_UniqueIds ==
    /\ Harmonized => IsInjective(transposed.index)
    /\ sig_pc \in {"save", "done"} => IsInjective(ranked_matrix.index)
    /\ sig_pc = "done" => IsInjective(saved.index)

\* C4 witness: two symbols map to id 10, which labels one row of the output
C4_Witness ==
    /\ sig_pc = "done"
    /\ gene_map = <<MapRow("A", IntId(10)), MapRow("B", IntId(10)),
                    MapRow("C", IntId(20))>>
    /\ saved.index = <<10, 20>>

\* positions (in the extracted table) of the symbols the mapping in force
\* resolves to the number X
C5_Members(X) ==
    LET dict == GeneNameToEntrez(variant, gene_map)
    IN  {g \in 1..Len(Symbols) :
            Symbols[g] \in DOMAIN dict /\ dict[Symbols[g]] = IntId(X)}

RECURSIVE C5_Total(_, _)
C5_Total(S, e) ==
    IF S = {} THEN 0
    ELSE LET g == CHOOSE x \in S : TRUE
         IN  l2fc_df.data[g][e][1] + C5_Total(S \ {g}, e)

C5_Ids == {10, 20}

\* the output has a row for X exactly when some symbol resolves to X
C5_RowsExact ==
    \A X \in C5_Ids :
       (C5_Members(X) # {}) <=> (\E k \in 1..Len(transposed.index) : transposed.index[k] = X)

-----------------------------------------------------------------------------
(* Replicate-consistency validator: coverage, classification, singletons *)

\* the run has produced its result table
TableProduced == val_pc \in {"filtered", "saved"}

\* the ids present both in the metadata and in the signature matrix
C7_CommonIds == DOMAIN sigs \cap {meta[i].id : i \in 1..Len(meta)}

\* C7 (as stated): the result table holds exactly one record for every
\* experiment id present both in the metadata and in the matrix, whether or
\* not the experiment has a perturbation name.  The code drops every
\* experiment without a name (groupby skips missing keys), so this fails.
C7_OneRecordPerCommonId ==
    TableProduced =>
        \A id \in C7_CommonIds :
            Cardinality({k \in 1..Len(results_df) : results_df[k].id = id}) = 1

\* C8: a returning call of apply_filters in p-value mode sets valid = 1 on a
\* scored record iff p < tau and r > 0, in r-value mode iff r > tau, whatever
\* the record's flag was before the call; the flag is 0 or 1; and the call
\* leaves id, name, r, p and the peer count of every record as they were.
C8_Call ==
    val_pc' = "filtered" =>
        /\ Len(results_df') = Len(results_df)
        /\ \A k \in 1..Len(results_df) :
             LET old == results_df[k]
                 new == results_df'[k]
             IN  /\ new.id = old.id /\ new.drug_name = old.drug_name
                 /\ new.r = old.r /\ new.p = old.p /\ new.num_peers = old.num_peers
                 /\ new.valid \in {0, 1}
                 /\ (~IsNaN(old.r) /\ filter_mode' = "pvalue") =>
                        (new.valid = 1 <=> (FLt(old.p, threshold') /\ FGt(old.r, F(0))))
                 /\ (~IsNaN(old.r) /\ filter_mode' = "rvalue") =>
                        (new.valid = 1 <=> FGt(old.r, threshold'))

C8_ThresholdModes == [][C8_Call]_vars

\* C8 witness: a p-value call at tau = 0.05 has accepted one positively
\* correlated record (p < tau) and rejected another whose p equals tau
C8_Witness ==
    /\ val_pc = "filtered"
    /\ filter_mode = "pvalue"
    /\ threshold = <<5, 100>>
    /\ \E j, k \in 1..Len(results_df) :
          /\ results_df[j].valid = 1
          /\ FGt(results_df[k].r, F(0))
          /\ FEq(results_df[k].p, threshold)
          /\ results_df[k].valid = 0

\* the r values of the rankable records, in table order
C9_RankableR ==
    LET rows == SelectSeq(results_df, LAMBDA rec : ~IsNaN(rec.r))
    IN  [k \in 1..Len(rows) |-> rows[k].r]

\* an ascending rearrangement of a list of values
C9_Ascending(rs) ==
    LET perm == CHOOSE f \in [1..Len(rs) -> 1..Len(rs)] :
                    /\ \A a, b \in 1..Len(rs) : f[a] = f[b] => a = b
                    /\ \A a, b \in 1..Len(rs) : a < b => FLe(rs[f[a]], rs[f[b]])
    IN  [k \in 1..Len(rs) |-> rs[perm[k]]]

\* the q-th percentile of a non-empty list: the value at position
\* (n - 1) * q / 100 of the ascending list (counting from 0), a position
\* between two entries giving their weighted average
C9_PercentileOf(rs, q) ==
    LET a == C9_Ascending(rs)
        n == Len(rs)
        num == (n - 1) * q[1]
        den == 100 * q[2]
        lo == num \div den
        w == <<num % den, den>>
    IN  IF w[1] = 0 THEN a[lo + 1]
        ELSE FAdd(FMul(FSub(F(1), w), a[lo + 1]), FMul(w, a[lo + 2]))

\* C9: after a returning percentile call with percent tau, the cutoff is the
\* (100 - tau)-th percentile of r over the records that have an r (singleton
\* records take no part), and a record is valid iff it has an r, r >= cutoff
\* and r > 0; with no rankable record there is no cutoff and nothing is valid.
C9_PercentileMode ==
    (val_pc = "filtered" /\ filter_mode = "percentile") =>
        IF C9_RankableR = <<>>
        THEN /\ IsNaN(r_cutoff)
             /\ \A k \in 1..Len(results_df) : results_df[k].valid = 0
        ELSE /\ FEq(r_cutoff, C9_PercentileOf(C9_RankableR, FSub(F(100), threshold)))
             /\ \A k \in 1..Len(results_df) :
                  results_df[k].valid = 1 <=>
                      /\ ~IsNaN(results_df[k].r)
                      /\ FGe(results_df[k].r, r_cutoff)
                      /\ FGt(results_df[k].r, F(0))
             /\ \A k \in 1..Len(results_df) : results_df[k].valid \in {0, 1}

\* C9 witness: a percentile call at tau = 25 on a table with a singleton
\* record, whose cutoff lies strictly between two r values: one record is
\* valid, a positively correlated one below the cutoff is not
C9_Witness ==
    /\ val_pc = "filtered"
    /\ filter_mode = "percentile"
    /\ threshold = F(25)
    /\ \E k \in 1..Len(results_df) : IsNaN(results_df[k].r)
    /\ \A k \in 1..Len(results_df) : ~FEq(results_df[k].r, r_cutoff)
    /\ \E j, k \in 1..Len(results_df) :
          /\ results_df[j].valid = 1
          /\ FGt(results_df[k].r, F(0))
          /\ FLt(results_df[k].r, r_cutoff)
          /\ results_df[k].valid = 0

\* the metadata rows of a perturbation whose experiment is in the matrix
C10_PresentMembers(name) ==
    {i \in 1..Len(meta) : meta[i].name = name /\ meta[i].id \in DOMAIN sigs}

\* C10: every record of a group with at most one member in the matrix has
\* undefined r and p and peer count 0, and valid = 0 once the run (under any
\* mode and threshold) has classified it; every named experiment that is the
\* only member of its group in the matrix has such a record; the CSV holds
\* the same records.
C10_SingletonPolicy ==
    /\ \A k \in 1..Len(results_df) :
          Cardinality(C10_PresentMembers(results_df[k].drug_name)) <= 1 =>
              /\ IsNaN(results_df[k].r)
              /\ IsNaN(results_df[k].p)
              /\ results_df[k].num_peers = 0
              /\ TableProduced => results_df[k].valid = 0
    /\ TableProduced =>
          \A i \in 1..Len(meta) :
              (meta[i].name # NoName /\ C10_PresentMembers(meta[i].name) = {i}) =>
                  \E k \in 1..Len(results_df) : results_df[k].id = meta[i].id
    /\ val_pc = "saved" => csv = results_df

\* C10 witness: a saved run in r-value mode with threshold -2, which accepts
\* every scored record, still has the record of a singleton at valid = 0
C10_Witness ==
    /\ val_pc = "saved"
    /\ filter_mode = "rvalue"
    /\ FLt(threshold, F(-1))
    /\ \E j, k \in 1..Len(csv) :
          /\ csv[j].valid = 1
          /\ Cardinality(C10_PresentMembers(csv[k].drug_name)) = 1
          /\ IsNaN(csv[k].r)
          /\ csv[k].num_peers = 0
          /\ csv[k].valid = 0

-----------------------------------------------------------------------------
(* Replicate-consistency validator: degenerate correlations, leave-one-out *)

\* the position in the metadata of the experiment with the given id
MetaRowOf(id) == CHOOSE i \in 1..Len(meta) : meta[i].id = id

\* the members of the replicate group of metadata row i that are in the
\* matrix, as metadata positions
GroupOf(i) == C10_PresentMembers(meta[i].name)

\* the sum, at gene g, of the signatures of the metadata rows in S
RECURSIVE SumOverRows(_, _)
SumOverRows(S, g) ==
    IF S = {} THEN 0
    ELSE LET j == CHOOSE x \in S : TRUE
         IN  sigs[meta[j].id][g] + SumOverRows(S \ {j}, g)

\* the elementwise sum of the signatures of the peers of metadata row i
OthersSum(i) ==
    [g \in 1..Len(sigs[meta[i].id]) |-> SumOverRows(GroupOf(i) \ {i}, g)]

\* a vector without any variation
ZeroVariance(v) == \A g, h \in 1..Len(v) : v[g] = v[h]

\* the correlation of metadata row i with its peer consensus is undefined
C11_Undefined(i) ==
    \/ Len(sigs[meta[i].id]) < 2
    \/ ZeroVariance(sigs[meta[i].id])
    \/ ZeroVariance(OthersSum(i))

\* C11: a record of a group of two or more whose correlation with the peer
\* consensus is undefined (zero variance on either side, or a value error)
\* holds r = 0 and p = 1; the run does not fail on it: whenever records exist
\* the table is produced, and it holds one record for every member of every
\* group of two or more, the defined correlations being present.
C11_DegenerateSentinel ==
    /\ \A k \in 1..Len(results_df) :
          LET i == MetaRowOf(results_df[k].id)
          IN  (Cardinality(GroupOf(i)) >= 2 /\ C11_Undefined(i)) =>
                  /\ FEq(results_df[k].r, F(0))
                  /\ FEq(results_df[k].p, F(1))
    /\ val_pc = "failed" => results_df = <<>>
    /\ TableProduced =>
          \A i \in 1..Len(meta) :
              (meta[i].name # NoName /\ i \in GroupOf(i)
                    /\ Cardinality(GroupOf(i)) >= 2) =>
                  /\ Cardinality({k \in 1..Len(results_df) :
                                      results_df[k].id = meta[i].id}) = 1
                  /\ \A k \in 1..Len(results_df) :
                        results_df[k].id = meta[i].id => ~IsNaN(results_df[k].r)

\* C11 witness: a produced table in which a record with an undefined
\* correlation (r = 0, p = 1) is followed by a record with a defined,
\* non-zero correlation
C11_Witness ==
    /\ TableProduced
    /\ \E j, k \in 1..Len(results_df) :
          /\ j < k
          /\ Cardinality(GroupOf(MetaRowOf(results_df[j].id))) >= 2
          /\ C11_Undefined(MetaRowOf(results_df[j].id))
          /\ FEq(results_df[j].r, F(0))
          /\ FEq(results_df[j].p, F(1))
          /\ ~C11_Undefined(MetaRowOf(results_df[k].id))
          /\ ~FEq(results_df[k].r, F(0))

\* the elementwise mean of the signatures of the peers of metadata row i
C12_MeanOfOthers(i) ==
    [g \in 1..Len(sigs[meta[i].id]) |->
        <<OthersSum(i)[g], Cardinality(GroupOf(i)) - 1>>]

\* C12: for every member i of every replicate group of size k >= 2, the peer
\* sum is the total sum minus the member's vector and equals the sum of the
\* other k - 1 vectors, the peer consensus is their elementwise mean, and the
\* member's record holds peer count k - 1 and the correlation of the member
\* with that mean.
C12_LeaveOneOut ==
    val_pc \in {"stats", "filtered", "saved"} =>
        \A i \in 1..Len(meta) :
            (meta[i].name # NoName /\ i \in GroupOf(i) /\ Cardinality(GroupOf(i)) >= 2) =>
                LET ids == ValidMatrixIds(sigs_filt, meta_filt, meta[i].name)
                    id == meta[i].id
                    total == TotalSumVector(sigs_filt, ids)
                    peer_sum == PeerSumVector(sigs_filt, ids, id)
                    consensus == PeerConsensus(sigs_filt, ids, id)
                    expected == GuardedPearson(sigs[id], C12_MeanOfOthers(i))
                IN  /\ \A g \in 1..Len(sigs[id]) :
                          /\ peer_sum[g] = total[g] - sigs[id][g]
                          /\ peer_sum[g] = OthersSum(i)[g]
                          /\ FEq(consensus[g], C12_MeanOfOthers(i)[g])
                    /\ \A k \in 1..Len(results_df) :
                          results_df[k].id = id =>
                              /\ results_df[k].num_peers = Cardinality(GroupOf(i)) - 1
                              /\ results_df[k].r = expected[1]
                              /\ results_df[k].p = expected[2]

\* C12 witness: a produced table with a record of a group of three (peer
\* count 2) whose members differ, the correlation being neither 0 nor +-1
C12_Witness ==
    /\ TableProduced
    /\ \E k \in 1..Len(results_df) :
          /\ results_df[k].num_peers = 2
          /\ Cardinality(GroupOf(MetaRowOf(results_df[k].id))) = 3
          /\ ~FEq(results_df[k].r, F(0))
          /\ FLt(results_df[k].r, F(1))
          /\ FGt(results_df[k].r, F(-1))

-----------------------------------------------------------------------------
(* Replicate-consistency validator: threshold monotonicity *)

\* the positions of the records marked valid
ValidSet(df) == {k \in 1..Len(df) : df[k].valid = 1}

\* C13: when apply_filters is called again on the same records in the same
\* mode with a threshold at least as large, then in p-value mode every record
\* valid before is valid after (the count of valid records does not decrease)
\* and in r-value mode every record valid after was valid before (the count
\* does not increase).
C13_Recall ==
    (val_pc = "filtered" /\ val_pc' = "filtered" /\ filter_mode' = filter_mode
            /\ FLe(threshold, threshold')) =>
        /\ filter_mode = "pvalue" =>
              /\ ValidSet(results_df) \subseteq ValidSet(results_df')
              /\ Cardinality(ValidSet(results_df)) <= Cardinality(ValidSet(results_df'))
        /\ filter_mode = "rvalue" =>
              /\ ValidSet(results_df') \subseteq ValidSet(results_df)
              /\ Cardinality(ValidSet(results_df')) <= Cardinality(ValidSet(results_df))

C13_Monotone == [][C13_Recall]_vars

\* C13 witness: a p-value call at threshold 2 has accepted a record whose p
\* (0.05) is not below the smaller thresholds, next to one rejected for r <= 0
C13_Witness ==
    /\ val_pc = "filtered"
    /\ filter_mode = "pvalue"
    /\ FEq(threshold, F(2))
    /\ \E j, k \in 1..Len(results_df) :
          /\ results_df[j].valid = 1
          /\ FEq(results_df[j].p, <<5, 100>>)
          /\ ~IsNaN(results_df[k].r)
          /\ results_df[k].valid = 0

-----------------------------------------------------------------------------
(* Extraction: determinism *)

\* the output table as a function of the two selections alone: one row per
\* entry of the row selection, by ascending experiment id, the values in the
\* order of the column selection
C14_TableOf(rows, cols) ==
    LET ascending == SortSeq(rows, LAMBDA a, b : a < b)
    IN  [i \in 1..Len(rows) |->
            [experiment_id |-> ascending[i],
             vals |-> [j \in 1..Len(cols) |-> Node(ascending[i], cols[j])]]]

\* C14: the table a completed extraction has written is determined by the row
\* and column selections and the store alone; it is the same for every worker
\* count (also one above the number of rows) and every order in which the
\* workers return, so two runs with the same selections write equal tables.
C14_Deterministic ==
    ext_pc = "done" => parquet = C14_TableOf(row_idx_keep, col_idx_keep)

\* C14 witness: a completed extraction of at least two rows with more workers
\* than rows (some chunk is empty) and a column selection not in ascending
\* order
C14_Witness ==
    /\ ext_pc = "done"
    /\ Len(row_idx_keep) >= 2
    /\ n_cores > Len(row_idx_keep)
    /\ \E k \in 1..n_cores : row_chunks[k] = <<>>
    /\ Len(parquet) = Len(row_idx_keep)
    /\ col_idx_keep # col_sorted

-----------------------------------------------------------------------------
(* Extraction: worker failure, disk-space gate, shape validation *)

\* some worker of the running pool has raised
SomeWorkerRaised == \E k \in 1..Len(results) : results[k].raised

\* from a state in which a worker has raised, the run neither completes nor
\* writes a row nor hands out a chunk again; no chunk is ever handed out more
\* than once; nothing happens after the run has failed
C15_Step ==
    /\ SomeWorkerRaised =>
          /\ ext_pc' \in {"parallel", "failed"}
          /\ parquet' = <<>>
          /\ dispatched' = dispatched
    /\ \A k \in 1..Len(dispatched') : dispatched'[k] <= 1
    /\ ext_pc # "failed"

\* C15: once any single worker has raised, the extraction ends in the failed
\* state (main exits with status 1), no row of the output table is written
\* in that run, and no chunk is dispatched again.
C15_WorkerFailure ==
    /\ [][C15_Step]_vars
    /\ (SomeWorkerRaised ~> (ext_pc = "failed" /\ ext_error = "worker"))

\* C15 witness: the run has failed on a worker's exception while another
\* worker had returned its rows; every chunk was dispatched once and nothing
\* was written
C15_Witness ==
    /\ ext_pc = "failed"
    /\ ext_error = "worker"
    /\ \E j, k \in 1..n_cores :
          /\ results[j].raised
          /\ results[k].done /\ ~results[k].raised /\ results[k].rows # <<>>
    /\ \A k \in 1..n_cores : dispatched[k] = 1
    /\ parquet = <<>>

\* the bytes the output is estimated to need: 4 bytes per value, times 1.5
C16_Required == 6 * Len(col_idx_keep) * Len(row_idx_keep)

\* the step of the disk check: nothing is dispatched or written before it;
\* with too little free space it ends the run as failed, changing nothing
\* else; with enough it only moves on
C16_Step ==
    ext_pc = "estimate" =>
        /\ dispatched = <<>> /\ results = <<>> /\ parquet = <<>>
        /\ UNCHANGED <<row_idx_keep, col_idx_keep, n_cores, row_chunks, col_sorted,
                       col_unsort, results, parquet, disk_free, dispatched>>
        /\ IF disk_free < C16_Required
           THEN ext_pc' = "failed" /\ ext_error' = "Insufficient disk space"
           ELSE ext_pc' = "prepare" /\ ext_error' = ext_error

\* C16: with less free disk space than the estimated requirement the
\* extraction fails at the check, before any worker is dispatched or any row
\* written, and stays failed; with enough space the check changes nothing.
C16_DiskGate ==
    /\ [][C16_Step]_vars
    /\ [](disk_free < C16_Required =>
              /\ ext_pc \in {"estimate", "failed"}
              /\ dispatched = <<>> /\ parquet = <<>>)

\* C16 witness: a run with rows to extract has failed at the disk check with
\* nothing dispatched and nothing written
C16_Witness ==
    /\ ext_pc = "failed"
    /\ ext_error = "Insufficient disk space"
    /\ Len(row_idx_keep) >= 1
    /\ disk_free < C16_Required
    /\ dispatched = <<>>
    /\ parquet = <<>>

\* a target index lies outside the declared shape of the store
C17_OutsideShape ==
    \/ \E i \in 1..Len(row_idx_keep) : row_idx_keep[i] \notin RowIndices
    \/ \E j \in 1..Len(col_idx_keep) : col_idx_keep[j] \notin ColIndices

\* C17 (as stated): with a target row or column index outside the shape of
\* the store no worker is ever dispatched.  The code compares no index with
\* the shape, so the chunks are dispatched and the fault shows in a worker.
C17_ValidatedBeforeDispatch ==
    C17_OutsideShape =>
        /\ dispatched = <<>>
        /\ ext_pc \notin {"parallel", "done"}

-----------------------------------------------------------------------------
(* Driver: stage skipping *)

\* the steps of the driver: a stage body starts exactly when the stage's skip
\* flag is unset and its output file is absent or force is set, whatever an
\* existing file holds; skipping Part 1 by flag without its file fails the
\* run with Part 2 never started; only a running body touches its file
C18_Step ==
    /\ part1_runs' # part1_runs =>
          ~skip_part1 /\ (parquet_file = "absent" \/ force)
    /\ part2_runs' # part2_runs =>
          ~skip_part2 /\ (rdata_file = "absent" \/ force)
    /\ (drv_pc = "part1" /\ ~skip_part1 /\ (parquet_file = "absent" \/ force)) =>
          part1_runs' = part1_runs + 1
    /\ (drv_pc = "part2" /\ ~skip_part2 /\ (rdata_file = "absent" \/ force)) =>
          part2_runs' = part2_runs + 1
    /\ (drv_pc = "part1" /\ skip_part1 /\ parquet_file = "absent") =>
          drv_pc' = "failed" /\ part2_runs' = 0
    /\ drv_pc # "part1_body" => parquet_file' = parquet_file
    /\ drv_pc # "part2_body" => rdata_file' = rdata_file
    /\ drv_pc \notin {"done", "failed"}

\* C18: a stage of the driver is executed only when its skip flag is unset
\* and its output file is absent or force is set, the existence of the file
\* being the only test; with Part 1 skipped by flag and its file absent the
\* run fails before Part 2; Part 2 is reached only with the Part 1 file
\* existing; no stage is executed twice.
C18_StageSkipping ==
    /\ [][C18_Step]_vars
    /\ [](drv_pc \in {"part2", "part2_body"} => parquet_file # "absent")
    /\ [](part1_runs <= 1 /\ part2_runs <= 1)

\* C18 witness: Part 2 is running on a partly written Part 1 file that was
\* taken for complete because it exists (Part 1 not skipped by flag, its body
\* not started)
C18_Witness ==
    /\ drv_pc = "part2_body"
    /\ ~skip_part1
    /\ part1_runs = 0
    /\ parquet_file = "partial"
    /\ part2_runs = 1

-----------------------------------------------------------------------------
(* Validator: fatal input errors, default thresholds *)

\* C19 (as stated): a run of the validator that met a fatal input error (a
\* missing input file, a missing required column) is in the failed state, not
\* in the state of a completed run.  The loaders swallow the error and main
\* ends as a completed run, so this fails.
C19_FatalInputErrorFailsRun ==
    load_error # "" => val_pc = "failed"

\* C20 (as stated): when the command line names no threshold, the threshold
\* the classification was made with is the default of the selected mode:
\* 0.05 in p-value mode and 0.2 in r-value mode.  The parser has the single
\* default 0.05, so this fails in r-value mode.
C20_DefaultOfMode ==
    (TableProduced /\ argv.threshold = Absent) =>
        /\ filter_mode = "pvalue" => FEq(threshold, <<5, 100>>)
        /\ filter_mode = "rvalue" => FEq(threshold, <<2, 10>>)

-----------------------------------------------------------------------------
(* Mapping-table de-duplication *)

\* rows of the mapping table that list symbol n with an id present
C21_RowsOf(n) ==
    {i \in 1..Len(gene_map) : gene_map[i].name = n /\ gene_map[i].id # NaId}

\* symbols the table lists more than once with different ids
C21_Repeated ==
    {n \in Range(Symbols) :
        \E i, j \in C21_RowsOf(n) : gene_map[i].id # gene_map[j].id}

C21_FirstRow(n) == CHOOSE i \in C21_RowsOf(n) : \A j \in C21_RowsOf(n) : i <= j

\* C21 (as stated): in every harmonizing script, a symbol that the mapping
\* table lists more than once with different canonical ids is looked up as the
\* id of its first occurrence.  The shared-gene scripts build the dictionary
\* from the whole table, where the last occurrence wins, so this fails.
C21_FirstOccurrenceUsed ==
    Harmonized =>
        \A n \in C21_Repeated :
            GeneNameToEntrez(variant, gene_map)[n] = gene_map[C21_FirstRow(n)].id

\* the same property restricted to the scripts that de-duplicate the table
C21_FirstOccurrenceUsedHpc ==
    (Harmonized /\ variant = "hpc") =>
        \A n \in C21_Repeated :
            GeneNameToEntrez(variant, gene_map)[n] = gene_map[C21_FirstRow(n)].id

-----------------------------------------------------------------------------
(* Batch independence of the ranking *)

\* the whole matrix ranked in one piece
C22_WholeRanking ==
    Table(transposed.index, transposed.columns,
          [e \in 1..Len(transposed.columns) |-> RankColumn(transposed.data[e])])

\* C22: whatever the batch size (1, 2, the default 512, hence also a size of
\* at least the number of experiments), the batches ranked so far are the
\* ranking of the leading columns of the matrix, and the concatenated matrix
\* and the saved table equal the ranking of the whole matrix, columns in the
\* same order.
C22_BatchIndependent ==
    /\ sig_pc = "rank" =>
          LET sofar == Concat(ranked_chunks)
          IN  /\ Len(sofar) = Min2(rank_start, Len(transposed.columns))
              /\ \A e \in 1..Len(sofar) : sofar[e] = C22_WholeRanking.data[e]
    /\ sig_pc \in {"save", "done"} => ranked_matrix = C22_WholeRanking
    /\ sig_pc = "done" =>
          /\ saved.columns = transposed.columns
          /\ saved.data = C22_WholeRanking.data

\* C22 witness: two experiments whose columns rank differently, ranked one
\* column per batch
C22_Witness ==
    /\ sig_pc = "done"
    /\ rank_chunk_size = 1
    /\ Len(ranked_chunks) = 2
    /\ Len(transposed.columns) = 2
    /\ saved.data[1] # saved.data[2]

-----------------------------------------------------------------------------
(* Chunk write timing *)

\* a worker is still running
C23_SomeRunning == \E k \in DOMAIN results : ~results[k].done

\* a worker has returned its batch
C23_SomeReturned == \E k \in DOMAIN results : results[k].done /\ ~results[k].raised

\* C23 (as stated): a finished chunk can be written while other workers are
\* still running, i.e. the write step is enabled as soon as one worker has
\* returned its batch.  The writer is opened only after the pool has returned
\* every result, so this fails.
C23_WrittenAsAvailable ==
    (ext_pc = "parallel" /\ C23_SomeReturned /\ C23_SomeRunning) =>
        ENABLED WriteResults

C23_Step ==
    parquet' # parquet =>
        /\ ext_pc = "parallel" /\ ext_pc' = "done"
        /\ \A k \in 1..n_cores : results[k].done /\ ~results[k].raised
        /\ parquet' = Concat([k \in 1..n_cores |-> results[k].rows])

\* C23 (as amended): nothing is written while a worker is still running; the
\* output table changes in one step only, taken after every worker has
\* returned, which writes every batch, one after the other, in submission
\* order.
C23_WrittenAfterAllReturn ==
    /\ [][C23_Step]_vars
    /\ [](C23_SomeRunning => parquet = <<>>)

\* C23 witness: two workers returned non-empty batches and the table holds
\* the first worker's rows followed by the second's
C23_Witness ==
    /\ ext_pc = "done"
    /\ n_cores = 2
    /\ results[1].rows # <<>>
    /\ results[2].rows # <<>>
    /\ parquet = results[1].rows \o results[2].rows

-----------------------------------------------------------------------------
(* SignificanceGate *)

\* the gate has scanned '/padj': filter enabled, node present, shapes agree
C24_Scanned ==
    /\ ext_pc # "filter"
    /\ enable_filter
    /\ padj.present
    /\ padj.n_cols = Len(tahoe_genes_all)

\* the padj column of gene g holds a value <= threshold in some row (the
\* whole matrix, row by row)
C24_SignificantSomewhere(g) ==
    \E b \in 1..Len(padj.blocks) : FLe(padj.blocks[b].row[g + 1], padj_threshold)

\* C24: after the scan, a gene is retained exactly when its padj column holds
\* a value <= the threshold in at least one row of the whole matrix (so the
\* scan in chunks of 1000 rows with its early exit retains what a full scan
\* retains); and when no gene is retained the run has failed with nothing
\* dispatched, returned or written.
C24_SignificanceGate ==
    C24_Scanned =>
        /\ \A g \in Range(tahoe_genes_all) :
              (g \in Range(col_idx_keep)) <=> C24_SignificantSomewhere(g)
        /\ col_idx_keep = <<>> =>
              /\ ext_pc = "failed"
              /\ dispatched = <<>> /\ results = <<>> /\ parquet = <<>>
        /\ col_idx_keep # <<>> => ext_error \in {"", "worker"}

\* C24 witness: a matrix of 1001 rows whose only significant value is in the
\* second chunk; gene 0 alone is retained and the run has been dispatched
C24_Witness ==
    /\ C24_Scanned
    /\ padj.blocks = <<PadjBlock(P_VALUE_CHUNK_SIZE, <<(<<1, 2>>), (<<1, 2>>), (<<6, 100>>)>>),
                       PadjBlock(1, <<(<<1, 100>>), (<<1, 2>>), (<<1, 2>>)>>)>>
    /\ padj_read = P_VALUE_CHUNK_SIZE + 1
    /\ col_idx_keep = <<0>>
    /\ ext_pc = "parallel"

\* the early exit: every gene is significant in the first chunk of a matrix of
\* two chunks, and the second chunk is not read
C24_EarlyExit ==
    /\ C24_Scanned
    /\ PadjRows(padj.blocks) = 2 * P_VALUE_CHUNK_SIZE
    /\ padj_read = P_VALUE_CHUNK_SIZE
    /\ col_idx_keep = <<0, 1, 2>>

\* no gene retained: the run fails at the gate
C24_NoGene ==
    /\ C24_Scanned
    /\ col_idx_keep = <<>>
    /\ ext_pc = "failed"

-----------------------------------------------------------------------------
(* Missing significance matrix *)

\* C25 (as stated): when the filter is enabled and the file has no '/padj'
\* node, the run goes on with every gene kept, as a run with the filter
\* disabled does: past the gate the kept columns are all the genes, the list
\* of kept genes is the whole gene table and the run has not failed at the
\* gate.  The branch never assigns the list of kept genes and the statement
\* that reads it raises, so this fails.
C25_MissingMatrixKeepsAll ==
    (ext_pc # "filter" /\ enable_filter /\ ~padj.present) =>
        /\ col_idx_keep = SortedUnique(tahoe_genes_all)
        /\ tahoe_genes_filtered = Bound(tahoe_genes_all)
        /\ ext_error \in {"", "worker"}

\* the behaviour of the run with the filter disabled, for comparison
C25_DisabledKeepsAll ==
    (ext_pc # "filter" /\ ~enable_filter) =>
        /\ col_idx_keep = SortedUnique(tahoe_genes_all)
        /\ tahoe_genes_filtered = Bound(tahoe_genes_all)
        /\ ext_error \in {"", "worker"}

-----------------------------------------------------------------------------
(* Row partition *)

\* the work has been split
C26_Split == ext_pc \in {"parallel", "done"}

\* number of entries of the sorted list before chunk k
C26_Offset(k) == Len(Concat(SubSeq(row_chunks, 1, k - 1)))

\* C26: the sorted target row list is split into exactly n_cores chunks; chunk
\* k is the contiguous range of the sorted list that follows chunks 1..k-1,
\* so the chunks are pairwise disjoint ranges, in ascending order, whose
\* concatenation is the whole sorted list; their sizes differ by at most one;
\* each chunk is handed to exactly one worker, and a worker returns rows for
\* the entries of its own chunk only, so every entry of the list is read by
\* exactly one worker (and, the experiment ids being distinct, every target
\* row belongs to exactly one chunk).
C26_RowPartition ==
    C26_Split =>
        LET row_sorted == NpSort(row_idx_keep)
        IN  /\ Len(row_chunks) = n_cores
            /\ Concat(row_chunks) = row_sorted
            /\ \A k \in 1..n_cores :
                  row_chunks[k] = SubSeq(row_sorted, C26_Offset(k) + 1,
                                         C26_Offset(k) + Len(row_chunks[k]))
            /\ \A k, l \in 1..n_cores :
                  /\ Len(row_chunks[k]) - Len(row_chunks[l]) <= 1
                  /\ k < l => \A i \in 1..Len(row_chunks[k]), j \in 1..Len(row_chunks[l]) :
                                 row_chunks[k][i] <= row_chunks[l][j]
            /\ \A k \in 1..n_cores :
                  /\ dispatched[k] = 1
                  /\ (results[k].done /\ ~results[k].raised) =>
                        [i \in 1..Len(results[k].rows) |->
                            results[k].rows[i].experiment_id] = row_chunks[k]
            /\ IsInjective(row_idx_keep) =>
                  \A r \in Range(row_idx_keep) :
                     Cardinality({k \in 1..n_cores : r \in Range(row_chunks[k])}) = 1

\* C26 witness: three distinct rows given out of order, split between two
\* workers as chunks of two rows and one row, both returned and written
C26_Witness ==
    /\ ext_pc = "done"
    /\ n_cores = 2
    /\ row_idx_keep = <<2, 0, 1>>
    /\ row_chunks = <<(<<0, 1>>), (<<2>>)>>
    /\ Len(results[1].rows) = 2
    /\ Len(results[2].rows) = 1

-----------------------------------------------------------------------------
(* Driver: checkpoints across runs *)

\* Part 1 was called, found its output present and returned it without
\* starting its body
C27_ReturnedExisting == drv_pc = "part2" /\ ~skip_part1 /\ part1_runs = 0

\* C27 (as stated): whenever Part 1 finds its output present and returns it
\* without reprocessing, the file holds every chunk of a completed extraction,
\* whatever runs came before.  The test is the existence of the file alone, so
\* after a run that ended while writing, this fails.
C27_CheckpointComplete ==
    C27_ReturnedExisting => parquet_file = "complete"

\* C28 (as stated): when a run with no skip flag reports success, the final
\* signature file exists and was computed from the Part 1 table this run
\* used.  Part 2 returns an existing file without looking at the table, so
\* after the table was rewritten by a later run, this fails.
C28_OutputFresh ==
    (drv_pc = "done" /\ ~skip_part1 /\ ~skip_part2) =>
        /\ Exists(rdata_file)
        /\ rdata_from = parquet_gen

\* what does hold: a stage whose body ran to its end in this run leaves a
\* complete file, and a run whose two bodies both ran reports success with a
\* signature file computed from the table written in this run
C28_FreshWhenBothRan ==
    /\ (drv_pc = "part2" /\ part1_runs = 1) =>
          parquet_file = "complete" /\ parquet_gen = run_no
    /\ (drv_pc = "done" /\ part1_runs = 1 /\ part2_runs = 1) =>
          rdata_file = "complete" /\ rdata_from = run_no

-----------------------------------------------------------------------------
(* Experiment-id round trip *)

\* C29 (as stated): for every set of experiment ids, the label the loader
\* gives to a column of the RData file is the id (as text, as the metadata
\* holds it) of the experiment whose ranked column the serializer wrote
\* there.  The label is the position of the column, so with ids other than
\* 0, 1, 2, ... this fails.
C29_IdRoundTrip ==
    sig_pc = "loaded" =>
        /\ Len(tahoe_sigs_columns) = Len(ranked_matrix.columns)
        /\ \A k \in 1..Len(tahoe_sigs_columns) :
              tahoe_sigs_columns[k] = Str(ranked_matrix.columns[k])

\* what does hold: the label of the k'th experiment column (k = 0, 1, ...) is
\* the text of k, and the columns keep their data
C29_PositionRecovered ==
    sig_pc = "loaded" =>
        /\ Len(tahoe_sigs_columns) = Len(ranked_matrix.columns)
        /\ \A k \in 1..Len(tahoe_sigs_columns) : tahoe_sigs_columns[k] = Str(k - 1)
        /\ cmap_like.data = ranked_matrix.data
        /\ cmap_like.V1 = ranked_matrix.index

-----------------------------------------------------------------------------
(* Degenerate records *)

\* record k of the table is that of an experiment whose correlation with its
\* peer consensus is undefined, so that it received the sentinel r = 0, p = 1
C30_Degenerate(k) ==
    LET i == MetaRowOf(results_df[k].id)
    IN  /\ Cardinality(GroupOf(i)) >= 2
        /\ C11_Undefined(i)
        /\ FEq(results_df[k].r, F(0))
        /\ FEq(results_df[k].p, F(1))

\* C30 (as stated): a record that received the degenerate sentinel is marked
\* valid = 0 under every filter mode and every threshold.  The r-value mode
\* accepts r > threshold, so with a negative threshold this fails.
C30_DegenerateNeverValid ==
    TableProduced =>
        \A k \in 1..Len(results_df) : C30_Degenerate(k) => results_df[k].valid = 0

\* what does hold: the sentinel is rejected by the p-value and percentile
\* modes at every threshold, and by the r-value mode at a threshold >= 0
C30_DegenerateInvalidUnlessNegativeR ==
    (TableProduced /\ ~(filter_mode = "rvalue" /\ FLt(threshold, F(0)))) =>
        \A k \in 1..Len(results_df) : C30_Degenerate(k) => results_df[k].valid = 0

=============================================================================
